---- MODULE Spec2Model ----
(***************************************************************************)
(* A model of the bellhopcuda ray-tracing core: the arrival table          *)
(* (arrivals.hpp), the ray state machine RayInit / RayUpdate /             *)
(* RayTerminate (trace.hpp, main.hpp) and the job dispatcher               *)
(* (runfieldmodesimpl.cpp), and the record-framed binary output file       *)
(* (util/unformattedio.hpp).                                               *)
(*                                                                         *)
(* Numbers.  Amplitudes, phases, delays and angles are C++ floats.  They   *)
(* are modelled exactly: small integers for the inputs, rationals          *)
(* <<numerator, denominator>> for what the weighted averages of a merge    *)
(* produce, and NaN (<<0, 0>>) for 0/0.  Phases are in units of 0.001 rad, *)
(* delays in units of 0.001 s, ray amplitudes in units of 0.001.           *)
(***************************************************************************)
EXTENDS Integers, Sequences, FiniteSets, TLC

VARIABLES
    \* ---- arrival table (ArrInfo) and the AddArr calls in flight
    AllowMerging,   \* arrinfo->AllowMerging
    ArrMemSize,     \* arrinfo->ArrMemSize: the configured budget of the table, in bytes
    MaxNArr,        \* arrinfo->MaxNArr
    NArr,           \* arrinfo->NArr[cell]
    Arr,            \* arrinfo->Arr[cell][slot]
    apc,            \* per worker: position inside AddArr ("idle" | "write")
    aNt,            \* per worker: the local Nt of the AddArr call in flight
    aArgs,          \* per worker: the arguments of the AddArr call in flight
    nthreads,       \* maxThreads: the configured number of workers
    ncalls,         \* number of AddArr calls started so far
    last,           \* what the most recently completed AddArr step did
    nwrites,        \* per cell and slot: how many atomic-append AddArr calls wrote the slot
    applied,        \* per cell: the candidates handed to AddArr so far, in call order
    touched,        \* the slot indices the most recent AddArr step read or wrote in its cell
    \* ---- job dispatcher (runfieldmodesimpl.cpp)
    NSz,            \* Pos->NSz: number of sources
    Nalpha,         \* Angles->Nalpha: number of launch angles
    iSingle_alpha,  \* Angles->iSingle_alpha: the single launch angle requested, or -1
    cores,          \* the number of worker threads of RunFieldModesImpl
    sharedJobID,    \* the shared atomic job counter
    exceptionStr,   \* the shared error buffer: the messages appended, in order
    exceptionMutex, \* the worker holding exceptionMutex, or 0
    mainpc,         \* RunFieldModesImpl: "spawn" | "join" | "returned"
    mi,             \* RunFieldModesImpl: the loop index i
    wpc,            \* per worker: "unstarted" | "fetch" | "run" | "catch" | "append" | "done"
    wjob,           \* per worker: the job drawn from the counter
    wrinit,         \* per worker: the decoded (isrc, ialpha)
    processed,      \* per (isrc, ialpha): how many times the per-job pipeline ran to its end
    nruns,          \* the number of runs the caller has started in this process
    drawn,          \* the job indices drawn from the counter in this run, in order
    \* ---- one ray trace (trace.hpp, driven by the loop of main.hpp)
    O3D,            \* template parameter: the ocean is 3D
    R3D,            \* template parameter: the ray is 3D (2D: F,F  2D-in-3D: T,F  3D: T,T)
    runType,        \* the driver: "ray" (MainRayMode) | "TL" (MainTLMode)
    rinit,          \* RayInitInfo: isx, isy, isz, ialpha, ibeta, xs, SrcAzimAngle
    org,            \* Origin: xs, tradial
    rpc,            \* "init" | "update" | "terminate" | "done" | "aborted" | "crashed"
    rayOk,          \* what RayInit returned: "none" before it returns, else TRUE / FALSE
    reads,          \* the table reads RayInit made: <<table, index>>
    point,          \* the current ray point (ray2D[is] / point0): x, t, Amp
    Dist,           \* DistBegTop, DistBegBot, DistEndTop, DistEndBot
    is,             \* index of the current step along the ray
    istep,          \* the loop counter of the trace loop
    Nsteps,         \* the recorded number of steps, -1 while not assigned
    upd,            \* what the most recent RayUpdate did
    term,           \* what the most recent RayTerminate computed
    ninfl,          \* the number of Step_Influence calls the job has made (MainTLMode)
    \* ---- the unformatted output file (util/unformattedio.hpp)
    ostr,           \* the stream: is_open, fail, pos (put position), size, lens (the int32
                    \* fields written, by offset; every other byte is payload)
    recstart,       \* UnformattedOFile::recstart
    recl,           \* UnformattedOFile::recl
    fpc,            \* "off" | "live" | "error" (ExternalError thrown) | "destroyed"
    fcalls          \* the member functions called so far, in order: the words asked to be
                    \* written, and whether the call threw

arrVars == <<AllowMerging, ArrMemSize, MaxNArr, NArr, Arr, apc, aNt, aArgs, nthreads, ncalls, last, nwrites, applied, touched>>

dispVars == <<NSz, Nalpha, iSingle_alpha, cores, sharedJobID, exceptionStr, exceptionMutex,
              mainpc, mi, wpc, wjob, wrinit, processed, nruns, drawn>>

rayVars == <<O3D, R3D, runType, rinit, org, rpc, rayOk, reads, point, Dist, is, istep,
             Nsteps, upd, term, ninfl>>

fileVars == <<ostr, recstart, recl, fpc, fcalls>>

vars == <<arrVars, dispVars, rayVars, fileVars>>

(***************************************************************************)
(* Bounds of the model.                                                    *)
(***************************************************************************)
MaxCalls == 4
MaxThreads == 2
MaxSources == 2
MaxAngles == 2
MaxCores == 2
MaxRuns == 2
MaxN == 7

(***************************************************************************)
(* Exact rational arithmetic standing for float arithmetic.                *)
(***************************************************************************)
Abs(x) == IF x < 0 THEN -x ELSE x

RECURSIVE GCD(_, _)
GCD(a, b) == IF b = 0 THEN a ELSE GCD(b, a % b)

NaN == <<0, 0>>

IsNaN(r) == r[2] = 0

RNorm(n, d) ==
    IF d = 0 THEN NaN
    ELSE LET s == IF d < 0 THEN -1 ELSE 1
             g == GCD(Abs(n), Abs(d))
         IN  <<(s * n) \div g, (s * d) \div g>>

Rat(n) == <<n, 1>>

RAdd(x, y) == IF IsNaN(x) \/ IsNaN(y) THEN NaN ELSE RNorm(x[1] * y[2] + y[1] * x[2], x[2] * y[2])

RSub(x, y) == IF IsNaN(x) \/ IsNaN(y) THEN NaN ELSE RNorm(x[1] * y[2] - y[1] * x[2], x[2] * y[2])

RMul(x, y) == IF IsNaN(x) \/ IsNaN(y) THEN NaN ELSE RNorm(x[1] * y[1], x[2] * y[2])

\* x / y; 0/0 is NaN (a nonzero numerator over 0 does not arise: amplitudes are >= 0)
RDiv(x, y) == IF IsNaN(x) \/ IsNaN(y) THEN NaN ELSE RNorm(x[1] * y[2], x[2] * y[1])

\* x < y; every comparison with NaN is false
RLess(x, y) == ~IsNaN(x) /\ ~IsNaN(y) /\ x[1] * y[2] < y[1] * x[2]

\* complex numbers are pairs <<re, im>> of rationals
CAdd(u, v) == <<RAdd(u[1], v[1]), RAdd(u[2], v[2])>>

CSub(u, v) == <<RSub(u[1], v[1]), RSub(u[2], v[2])>>

CScale(w, u) == <<RMul(w, u[1]), RMul(w, u[2])>>

\* omega * |u| < tol, both sides being >= 0, compared through their squares
OmegaAbsLess(omega, u, tol) ==
    RLess(RMul(Rat(omega * omega), RAdd(RMul(u[1], u[1]), RMul(u[2], u[2]))), Rat(tol * tol))

(***************************************************************************)
(* The tables' sizes (Position) and the inputs of AddArr.                  *)
(***************************************************************************)
Pos == [NRz_per_range |-> 1, NRr |-> 2, NSz |-> 1, Ntheta |-> 1, NSx |-> 1, NSy |-> 1]

\* sizeof(Arrival): float a, Phase; cpxf delay; four float angles; two int32_t counts
SizeofArrival == 40

\* arrinfo->ArrMemSize: the configured budgets, in bytes
ArrMemSizes == {0, 40, 80, 200}

Omegas == {10}

Amps == {0, 1, 2}

\* The kinds of arrival that reach a cell.  Kind k has its own delay, phase, angles and
\* bounce counts.  With omega = 10 and PhaseTol = 50 (0.05):
\*   kinds 0 and 1 pair (omega*|d delay| = 40, |d phase| = 40), as do 1 and 2, and 1 and 3;
\*   kinds 0 and 2 do not (omega*|d delay| = 50, not below the tolerance);
\*   kinds 0 and 3 do not (|d phase| = 50, not below the tolerance); nor do 2 and 3.
Rays == {0, 1, 2, 3}

RayDelay(k) ==
    IF k = 0 THEN <<Rat(0), Rat(0)>>
    ELSE IF k = 1 THEN <<Rat(4), Rat(0)>>
    ELSE IF k = 2 THEN <<Rat(4), Rat(3)>>
    ELSE <<Rat(0), Rat(0)>>

RayPhase(k) == IF k = 0 THEN 0 ELSE IF k = 3 THEN 50 ELSE 40

\* the arguments of one AddArr call
AddArrArgs(base, Amp, omega, k) ==
    [base |-> base, Amp |-> Amp, omega |-> omega, Phase |-> RayPhase(k), delay |-> RayDelay(k),
     SrcDeclAngle |-> Rat(10 * k + 1), SrcAzimAngle |-> Rat(20 * k + 2),
     RcvrDeclAngle |-> Rat(30 * k + 3), RcvrAzimAngle |-> Rat(40 * k + 4),
     NumTopBnc |-> k, NumBotBnc |-> 3 - k]

nSrcsRcvrs(ThreeD) ==
    LET n == Pos.NRz_per_range * Pos.NRr * Pos.NSz
    IN  IF ThreeD THEN n * Pos.Ntheta * Pos.NSx * Pos.NSy ELSE n

Cells == 0 .. (nSrcsRcvrs(FALSE) - 1)

\* every amplitude and kind arrives at cell 0; the other cells receive kinds 0 and 1 at amplitude 1
AddArrInputs ==
    { AddArrArgs(0, a, w, k) : a \in Amps, w \in Omegas, k \in Rays }
        \cup { AddArrArgs(b, 1, w, k) : b \in Cells \ {0}, w \in Omegas, k \in {0, 1} }

\* memset(arrinfo->Arr, 0, ...): an all-zero Arrival record
ZeroArrival ==
    [a |-> 0, Phase |-> 0, delay |-> <<Rat(0), Rat(0)>>,
     SrcDeclAngle |-> Rat(0), SrcAzimAngle |-> Rat(0),
     RcvrDeclAngle |-> Rat(0), RcvrAzimAngle |-> Rat(0),
     NTopBnc |-> 0, NBotBnc |-> 0]

NoArgs == [base |-> -1]

NoLast == [op |-> "none", base |-> -1, iArr |-> -1, Nt |-> -1, args |-> NoArgs]

(***************************************************************************)
(* arrivals.hpp: IsSecondStepOfPair, AddArr, InitArrivalsMode.             *)
(***************************************************************************)
PhaseTol == 50

IsSecondStepOfPair_AnySlot(omega, Phase, delay, baseArr, Nt) ==
    \E j \in 0 .. (Nt - 1) :
        /\ OmegaAbsLess(omega, CSub(delay, baseArr[j].delay), PhaseTol)
        /\ Abs(baseArr[j].Phase - Phase) < PhaseTol

IsSecondStepOfPair(omega, Phase, delay, baseArr, Nt) ==
    /\ Nt >= 1
    /\ OmegaAbsLess(omega, CSub(delay, baseArr[Nt - 1].delay), PhaseTol)
    /\ Abs(baseArr[Nt - 1].Phase - Phase) < PhaseTol

\* the nine assignments baseArr[iArr].a = ... of the new-arrival path
NewArrival(args) ==
    [a |-> args.Amp, Phase |-> args.Phase, delay |-> args.delay,
     SrcDeclAngle |-> args.SrcDeclAngle, SrcAzimAngle |-> args.SrcAzimAngle,
     RcvrDeclAngle |-> args.RcvrDeclAngle, RcvrAzimAngle |-> args.RcvrAzimAngle,
     NTopBnc |-> args.NumTopBnc, NBotBnc |-> args.NumBotBnc]

\* for(Nt = 0; Nt < MaxNArr; ++Nt) if(baseArr[Nt].a < weakest) { weakest = ...; iArr = Nt; }
RECURSIVE WeakestLoop(_, _, _, _, _)
WeakestLoop(baseArr, maxN, k, weakest, iArr) ==
    IF k < maxN
    THEN IF baseArr[k].a < weakest
         THEN WeakestLoop(baseArr, maxN, k + 1, baseArr[k].a, k)
         ELSE WeakestLoop(baseArr, maxN, k + 1, weakest, iArr)
    ELSE iArr

\* (a scan that never lowers `weakest`: it ends on the last slot weaker than the candidate)
RECURSIVE LastWeakerLoop(_, _, _, _, _)
LastWeakerLoop(baseArr, maxN, k, weakest, iArr) ==
    IF k < maxN
    THEN IF baseArr[k].a < weakest
         THEN LastWeakerLoop(baseArr, maxN, k + 1, weakest, k)
         ELSE LastWeakerLoop(baseArr, maxN, k + 1, weakest, iArr)
    ELSE iArr

WeakestSlot_LastWeaker(baseArr, maxN, Amp) == LastWeakerLoop(baseArr, maxN, 0, Amp, -1)

\* (a full cell whose first slot is replaced whatever the candidate's strength)
WeakestSlot_Unconditional(baseArr, maxN, Amp) == IF maxN > 0 THEN 0 ELSE -1

\* the slot to replace when the cell is full, -1 when the candidate is not stronger than any
WeakestSlot(baseArr, maxN, Amp) == WeakestLoop(baseArr, maxN, 0, Amp, -1)

\* (the merge branch with the two weights exchanged)
MergedArrival_SwappedWeights(old, args) ==
    LET AmpTot == old.a + args.Amp
        w2 == RDiv(Rat(old.a), Rat(AmpTot))
        w1 == RDiv(Rat(args.Amp), Rat(AmpTot))
    IN  [old EXCEPT
            !.delay = CAdd(CScale(w1, old.delay), CScale(w2, args.delay)),
            !.a = AmpTot,
            !.SrcDeclAngle = RAdd(RMul(w1, old.SrcDeclAngle), RMul(w2, args.SrcDeclAngle)),
            !.SrcAzimAngle = RAdd(RMul(w1, old.SrcAzimAngle), RMul(w2, args.SrcAzimAngle)),
            !.RcvrDeclAngle = RAdd(RMul(w1, old.RcvrDeclAngle), RMul(w2, args.RcvrDeclAngle)),
            !.RcvrAzimAngle = RAdd(RMul(w1, old.RcvrAzimAngle), RMul(w2, args.RcvrAzimAngle))]

\* (a merge that stores the candidate over the paired arrival)
MergedArrival_Overwrites(old, args) == NewArrival(args)

\* the merge branch: amplitude-weighted average of the stored arrival and the candidate
MergedArrival(old, args) ==
    LET AmpTot == old.a + args.Amp
        w1 == RDiv(Rat(old.a), Rat(AmpTot))
        w2 == RDiv(Rat(args.Amp), Rat(AmpTot))
    IN  [old EXCEPT
            !.delay = CAdd(CScale(w1, old.delay), CScale(w2, args.delay)),
            !.a = AmpTot,
            !.SrcDeclAngle = RAdd(RMul(w1, old.SrcDeclAngle), RMul(w2, args.SrcDeclAngle)),
            !.SrcAzimAngle = RAdd(RMul(w1, old.SrcAzimAngle), RMul(w2, args.SrcAzimAngle)),
            !.RcvrDeclAngle = RAdd(RMul(w1, old.RcvrDeclAngle), RMul(w2, args.RcvrDeclAngle)),
            !.RcvrAzimAngle = RAdd(RMul(w1, old.RcvrAzimAngle), RMul(w2, args.RcvrAzimAngle))]

\* arrinfo->MaxNArr = arrinfo->ArrMemSize / (nSrcsRcvrs * sizeof(Arrival))
InitMaxNArr_PerTable(memSize, ThreeD) == memSize \div SizeofArrival

InitMaxNArr(memSize, ThreeD) == memSize \div (nSrcsRcvrs(ThreeD) * SizeofArrival)

Workers == 1 .. nthreads

InitArrivalsMode_AlwaysMerge(maxThreads, ThreeD, memSize) ==
    /\ nthreads = maxThreads
    /\ AllowMerging = (maxThreads >= 1)
    /\ ArrMemSize = memSize
    /\ MaxNArr = InitMaxNArr(memSize, ThreeD)
    /\ Arr = [c \in Cells |-> [i \in 0 .. (InitMaxNArr(memSize, ThreeD) - 1) |-> ZeroArrival]]
    /\ NArr = [c \in Cells |-> 0]

InitArrivalsMode(maxThreads, ThreeD, memSize) ==
    /\ nthreads = maxThreads
    /\ AllowMerging = (maxThreads = 1)
    /\ ArrMemSize = memSize
    /\ MaxNArr = InitMaxNArr(memSize, ThreeD)
    /\ Arr = [c \in Cells |-> [i \in 0 .. (InitMaxNArr(memSize, ThreeD) - 1) |-> ZeroArrival]]
    /\ NArr = [c \in Cells |-> 0]

ArrInit ==
    /\ \E maxThreads \in 1 .. MaxThreads, memSize \in ArrMemSizes :
           InitArrivalsMode(maxThreads, FALSE, memSize)
    /\ apc = [w \in 1 .. MaxThreads |-> "idle"]
    /\ aNt = [w \in 1 .. MaxThreads |-> 0]
    /\ aArgs = [w \in 1 .. MaxThreads |-> NoArgs]
    /\ ncalls = 0
    /\ last = NoLast
    /\ nwrites = [c \in Cells |-> [i \in 0 .. (MaxNArr - 1) |-> 0]]
    /\ touched = {}
    /\ applied = [c \in Cells |-> << >>]

\* one slot of one cell written
WriteSlot(base, iArr, rec) == Arr' = [Arr EXCEPT ![base][iArr] = rec]

\* AddArr with AllowMerging: the whole call, made by the only worker
\* (a pairing test that reads baseArr[Nt - 1] whatever Nt is)
PairingReads_Unguarded(Nt) == {Nt - 1}

\* the slots IsSecondStepOfPair reads: Nt >= 1 && ... baseArr[Nt - 1] ...
PairingReads(Nt) == IF Nt >= 1 THEN {Nt - 1} ELSE {}

\* the slots the scan for the weakest arrival reads: for(Nt = 0; Nt < MaxNArr; ++Nt)
ScanReads(maxN) == 0 .. (maxN - 1)

\* the slots a merge-enabled AddArr call reads or writes in a cell holding Nt arrivals, when
\* it ends by writing slot iArr (-1: it writes none)
MergingTouches(paired, Nt, iArr) ==
    PairingReads(Nt)
    \cup (IF ~paired /\ Nt >= MaxNArr THEN ScanReads(MaxNArr) ELSE {})
    \cup (IF iArr < 0 THEN {} ELSE {iArr})

AddArrMerging(args) ==
    /\ AllowMerging
    /\ ncalls < MaxCalls
    /\ ncalls' = ncalls + 1
    /\ LET base == args.base
           baseArr == Arr[base]
           Nt == NArr[base]
       IN  IF ~IsSecondStepOfPair(args.omega, args.Phase, args.delay, baseArr, Nt)
           THEN IF Nt >= MaxNArr
                THEN LET iArr == WeakestSlot(baseArr, MaxNArr, args.Amp)
                     IN  IF iArr < 0
                         THEN /\ UNCHANGED <<Arr, NArr>>
                              /\ last' = [op |-> "drop", base |-> base, iArr |-> -1, Nt |-> Nt, args |-> args]
                         ELSE /\ WriteSlot(base, iArr, NewArrival(args))
                              /\ UNCHANGED NArr
                              /\ last' = [op |-> "replace", base |-> base, iArr |-> iArr, Nt |-> Nt, args |-> args]
                ELSE /\ NArr' = [NArr EXCEPT ![base] = Nt + 1]
                     /\ WriteSlot(base, Nt, NewArrival(args))
                     /\ last' = [op |-> "append", base |-> base, iArr |-> Nt, Nt |-> Nt, args |-> args]
           ELSE /\ WriteSlot(base, Nt - 1, MergedArrival(baseArr[Nt - 1], args))
                /\ UNCHANGED NArr
                /\ last' = [op |-> "merge", base |-> base, iArr |-> Nt - 1, Nt |-> Nt, args |-> args]
    /\ touched' = MergingTouches(last'.op = "merge", NArr[args.base], last'.iArr)
    /\ UNCHANGED <<AllowMerging, ArrMemSize, MaxNArr, apc, aNt, aArgs, nthreads, nwrites>>

\* if(Nt >= arrinfo->MaxNArr) return;  -- the reserved index is within capacity
SlotAvailable_OffByOne(Nt, maxN) == Nt <= maxN

SlotAvailable(Nt, maxN) == ~(Nt >= maxN)

\* AddArr without merging, first half: Nt = AtomicFetchAdd(baseNArr, 1); if(Nt >= MaxNArr) return;
AddArrFetchAdd(w, args) ==
    /\ ~AllowMerging
    /\ apc[w] = "idle"
    /\ ncalls < MaxCalls
    /\ ncalls' = ncalls + 1
    /\ NArr' = [NArr EXCEPT ![args.base] = @ + 1]
    /\ IF ~SlotAvailable(NArr[args.base], MaxNArr)
       THEN /\ last' = [op |-> "discard", base |-> args.base, iArr |-> -1, Nt |-> NArr[args.base], args |-> NoArgs]
            /\ UNCHANGED <<apc, aNt, aArgs>>
       ELSE /\ apc' = [apc EXCEPT ![w] = "write"]
            /\ aNt' = [aNt EXCEPT ![w] = NArr[args.base]]
            /\ aArgs' = [aArgs EXCEPT ![w] = args]
            /\ last' = [op |-> "reserve", base |-> args.base, iArr |-> NArr[args.base], Nt |-> NArr[args.base], args |-> NoArgs]
    /\ touched' = {}
    /\ UNCHANGED <<AllowMerging, ArrMemSize, MaxNArr, Arr, nwrites, nthreads>>

\* AddArr without merging, second half: the nine assignments into baseArr[Nt]
AddArrWrite(w) ==
    /\ ~AllowMerging
    /\ apc[w] = "write"
    /\ WriteSlot(aArgs[w].base, aNt[w], NewArrival(aArgs[w]))
    /\ nwrites' = [nwrites EXCEPT ![aArgs[w].base][aNt[w]] = @ + 1]
    /\ apc' = [apc EXCEPT ![w] = "idle"]
    /\ aArgs' = [aArgs EXCEPT ![w] = NoArgs]
    /\ aNt' = [aNt EXCEPT ![w] = 0]
    /\ last' = [op |-> "write", base |-> aArgs[w].base, iArr |-> aNt[w], Nt |-> aNt[w], args |-> NoArgs]
    /\ touched' = {aNt[w]}
    /\ UNCHANGED <<AllowMerging, ArrMemSize, MaxNArr, NArr, nthreads, ncalls>>


\* the arrival table, for the specifications that do not exercise it
ArrOff ==
    /\ nthreads = 1 /\ AllowMerging = TRUE /\ ArrMemSize = 0 /\ MaxNArr = 0
    /\ Arr = [c \in Cells |-> << >>] /\ NArr = [c \in Cells |-> 0]
    /\ apc = [w \in 1 .. MaxThreads |-> "idle"]
    /\ aNt = [w \in 1 .. MaxThreads |-> 0]
    /\ aArgs = [w \in 1 .. MaxThreads |-> NoArgs]
    /\ ncalls = 0 /\ last = NoLast
    /\ nwrites = [c \in Cells |-> << >>]
    /\ touched = {}
    /\ applied = [c \in Cells |-> << >>]

(***************************************************************************)
(* main.hpp: GetJobIndices.  runfieldmodesimpl.cpp: FieldModesWorker,      *)
(* RunFieldModesImpl.                                                      *)
(***************************************************************************)

\* the (isrc, ialpha) of a job and whether the job should continue
GetJobIndices_OneTooMany(job, nsz, nalpha, isingle) ==
    LET isrc == IF isingle >= 0 THEN job ELSE job \div nalpha
        ialpha == IF isingle >= 0 THEN isingle ELSE job % nalpha
    IN  [isrc |-> isrc, ialpha |-> ialpha, continue |-> (isrc <= nsz)]

GetJobIndices_IgnoresSingleAngle(job, nsz, nalpha, isingle) ==
    [isrc |-> job \div nalpha, ialpha |-> job % nalpha, continue |-> (job \div nalpha < nsz)]

GetJobIndices(job, nsz, nalpha, isingle) ==
    LET isrc == IF isingle >= 0 THEN job ELSE job \div nalpha
        ialpha == IF isingle >= 0 THEN isingle ELSE job % nalpha
    IN  [isrc |-> isrc, ialpha |-> ialpha, continue |-> (isrc < nsz)]

Threads == 1 .. cores

NoJob == [isrc |-> -1, ialpha |-> -1]

DispInit ==
    /\ NSz \in 1 .. MaxSources
    /\ Nalpha \in 1 .. MaxAngles
    /\ iSingle_alpha \in -1 .. (Nalpha - 1)
    /\ cores \in 1 .. MaxCores
    /\ sharedJobID = 0
    /\ exceptionStr = << >>
    /\ exceptionMutex = 0
    /\ mainpc = "spawn"
    /\ mi = 0
    /\ wpc = [w \in 1 .. MaxCores |-> "unstarted"]
    /\ wjob = [w \in 1 .. MaxCores |-> -1]
    /\ wrinit = [w \in 1 .. MaxCores |-> NoJob]
    /\ processed = [s \in 0 .. MaxSources, a \in 0 .. MaxAngles |-> 0]
    /\ nruns = 1
    /\ drawn = << >>

\* the dispatcher, for the specifications that do not exercise it
DispOff ==
    /\ NSz = 1 /\ Nalpha = 1 /\ iSingle_alpha = -1 /\ cores = 1
    /\ sharedJobID = 0 /\ exceptionStr = << >> /\ exceptionMutex = 0
    /\ mainpc = "returned" /\ mi = 0
    /\ wpc = [w \in 1 .. MaxCores |-> "done"]
    /\ wjob = [w \in 1 .. MaxCores |-> -1]
    /\ wrinit = [w \in 1 .. MaxCores |-> NoJob]
    /\ processed = [s \in 0 .. MaxSources, a \in 0 .. MaxAngles |-> 0]
    /\ nruns = 0
    /\ drawn = << >>

\* for(i = 0; i < cores; ++i) threads.push_back(std::thread(FieldModesWorker, ...));
SpawnThread ==
    /\ mainpc = "spawn"
    /\ IF mi < cores
       THEN /\ wpc' = [wpc EXCEPT ![mi + 1] = "fetch"]
            /\ mi' = mi + 1
            /\ UNCHANGED mainpc
       ELSE /\ mainpc' = "join"
            /\ mi' = 0
            /\ UNCHANGED wpc
    /\ UNCHANGED <<NSz, Nalpha, iSingle_alpha, cores, nruns, drawn, sharedJobID, exceptionStr, exceptionMutex,
                   wjob, wrinit, processed>>

JoinThread_NoWait ==
    /\ mainpc = "join"
    /\ IF mi < cores
       THEN /\ mi' = mi + 1
            /\ UNCHANGED mainpc
       ELSE /\ mainpc' = "returned"
            /\ UNCHANGED mi
    /\ UNCHANGED <<NSz, Nalpha, iSingle_alpha, cores, nruns, drawn, sharedJobID, exceptionStr,
                   exceptionMutex, wpc, wjob, wrinit, processed>>

\* for(i = 0; i < cores; ++i) threads[i].join();
JoinThread ==
    /\ mainpc = "join"
    /\ IF mi < cores
       THEN /\ wpc[mi + 1] = "done"
            /\ mi' = mi + 1
            /\ UNCHANGED mainpc
       ELSE /\ mainpc' = "returned"
            /\ UNCHANGED mi
    /\ UNCHANGED <<NSz, Nalpha, iSingle_alpha, cores, nruns, drawn, sharedJobID, exceptionStr, exceptionMutex,
                   wpc, wjob, wrinit, processed>>

WorkerFetch_NoIncrementPastEnd(w) ==
    /\ wpc[w] = "fetch"
    /\ drawn' = Append(drawn, sharedJobID)
    /\ LET r == GetJobIndices(sharedJobID, NSz, Nalpha, iSingle_alpha)
       IN  IF r.continue
           THEN /\ sharedJobID' = sharedJobID + 1
                /\ wpc' = [wpc EXCEPT ![w] = "run"]
                /\ wjob' = [wjob EXCEPT ![w] = sharedJobID]
                /\ wrinit' = [wrinit EXCEPT ![w] = [isrc |-> r.isrc, ialpha |-> r.ialpha]]
           ELSE /\ sharedJobID' = sharedJobID
                /\ wpc' = [wpc EXCEPT ![w] = "done"]
                /\ wjob' = [wjob EXCEPT ![w] = -1]
                /\ wrinit' = [wrinit EXCEPT ![w] = NoJob]
    /\ UNCHANGED <<NSz, Nalpha, iSingle_alpha, cores, nruns, exceptionStr, exceptionMutex,
                   mainpc, mi, processed>>

WorkerFetch_PreIncrement(w) ==
    /\ wpc[w] = "fetch"
    /\ sharedJobID' = sharedJobID + 1
    /\ drawn' = Append(drawn, sharedJobID + 1)
    /\ LET r == GetJobIndices(sharedJobID + 1, NSz, Nalpha, iSingle_alpha)
       IN  IF r.continue
           THEN /\ wpc' = [wpc EXCEPT ![w] = "run"]
                /\ wjob' = [wjob EXCEPT ![w] = sharedJobID + 1]
                /\ wrinit' = [wrinit EXCEPT ![w] = [isrc |-> r.isrc, ialpha |-> r.ialpha]]
           ELSE /\ wpc' = [wpc EXCEPT ![w] = "done"]
                /\ wjob' = [wjob EXCEPT ![w] = -1]
                /\ wrinit' = [wrinit EXCEPT ![w] = NoJob]
    /\ UNCHANGED <<NSz, Nalpha, iSingle_alpha, cores, nruns, exceptionStr, exceptionMutex,
                   mainpc, mi, processed>>

\* int32_t job = sharedJobID++; if(!GetJobIndices(rinit, job, ...)) break;
WorkerFetch(w) ==
    /\ wpc[w] = "fetch"
    /\ sharedJobID' = sharedJobID + 1
    /\ drawn' = Append(drawn, sharedJobID)
    /\ LET r == GetJobIndices(sharedJobID, NSz, Nalpha, iSingle_alpha)
       IN  IF r.continue
           THEN /\ wpc' = [wpc EXCEPT ![w] = "run"]
                /\ wjob' = [wjob EXCEPT ![w] = sharedJobID]
                /\ wrinit' = [wrinit EXCEPT ![w] = [isrc |-> r.isrc, ialpha |-> r.ialpha]]
           ELSE /\ wpc' = [wpc EXCEPT ![w] = "done"]
                /\ wjob' = [wjob EXCEPT ![w] = -1]
                /\ wrinit' = [wrinit EXCEPT ![w] = NoJob]
    /\ UNCHANGED <<NSz, Nalpha, iSingle_alpha, cores, nruns, exceptionStr, exceptionMutex,
                   mainpc, mi, processed>>

\* MainFieldModes(rinit, ...) runs the job's ray to its end, and the loop goes round
WorkerRunJob(w) ==
    /\ wpc[w] = "run"
    /\ processed' = [processed EXCEPT ![wrinit[w].isrc, wrinit[w].ialpha] = @ + 1]
    /\ wpc' = [wpc EXCEPT ![w] = "fetch"]
    /\ UNCHANGED <<NSz, Nalpha, iSingle_alpha, cores, nruns, drawn, sharedJobID, exceptionStr, exceptionMutex,
                   mainpc, mi, wjob, wrinit>>

\* MainFieldModes(rinit, ...) throws a std::exception: control leaves the loop for the handler
WorkerThrow(w) ==
    /\ wpc[w] = "run"
    /\ wpc' = [wpc EXCEPT ![w] = "catch"]
    /\ UNCHANGED <<NSz, Nalpha, iSingle_alpha, cores, nruns, drawn, sharedJobID, exceptionStr, exceptionMutex,
                   mainpc, mi, wjob, wrinit, processed>>

WorkerLock_NoWait(w) ==
    /\ wpc[w] = "catch"
    /\ exceptionMutex' = w
    /\ wpc' = [wpc EXCEPT ![w] = "append"]
    /\ UNCHANGED <<NSz, Nalpha, iSingle_alpha, cores, nruns, drawn, sharedJobID, exceptionStr,
                   mainpc, mi, wjob, wrinit, processed>>

\* std::lock_guard<std::mutex> lock(exceptionMutex);
WorkerLock(w) ==
    /\ wpc[w] = "catch"
    /\ exceptionMutex = 0
    /\ exceptionMutex' = w
    /\ wpc' = [wpc EXCEPT ![w] = "append"]
    /\ UNCHANGED <<NSz, Nalpha, iSingle_alpha, cores, nruns, drawn, sharedJobID, exceptionStr,
                   mainpc, mi, wjob, wrinit, processed>>

\* exceptionStr += std::string(e.what()) + "\n"; the guard releases the mutex; the worker returns
WorkerAppend(w) ==
    /\ wpc[w] = "append"
    /\ exceptionStr' = Append(exceptionStr, [worker |-> w, job |-> wjob[w]])
    /\ exceptionMutex' = 0
    /\ wpc' = [wpc EXCEPT ![w] = "done"]
    /\ UNCHANGED <<NSz, Nalpha, iSingle_alpha, cores, nruns, drawn, sharedJobID,
                   mainpc, mi, wjob, wrinit, processed>>

\* MainTLMode: cpx *u = &uAllSources[isrc * inflray.NRz_per_range * Pos->NRr], the
\* elements of the pressure array that the job of source isrc accumulates into
TLSubArray(isrc) ==
    {isrc * Pos.NRz_per_range * Pos.NRr + k : k \in 0 .. (Pos.NRz_per_range * Pos.NRr - 1)}

\* the elements of the pressure array that the job a worker is running may write
JobWrites(w) == IF wpc[w] = "run" THEN TLSubArray(wrinit[w].isrc) ELSE {}

(***************************************************************************)
(* The caller of RunFieldModesImpl.  Its code is not among these sources;  *)
(* it is modelled from the specification: after the join it surfaces one   *)
(* aggregated failure if the error buffer is non-empty, and before the     *)
(* dispatch of a run it sets the job counter to 0 and empties the buffer.  *)
(***************************************************************************)
CallerCheckErrors ==
    /\ mainpc = "returned"
    /\ mainpc' = IF exceptionStr # << >> THEN "failed" ELSE "succeeded"
    /\ UNCHANGED <<NSz, Nalpha, iSingle_alpha, cores, nruns, drawn, sharedJobID, exceptionStr,
                   exceptionMutex, mi, wpc, wjob, wrinit, processed>>

CallerRunAgain ==
    /\ mainpc \in {"failed", "succeeded"}
    /\ nruns < MaxRuns
    /\ nruns' = nruns + 1
    /\ sharedJobID' = 0
    /\ exceptionStr' = << >>
    /\ drawn' = << >>
    /\ processed' = [s \in 0 .. MaxSources, a \in 0 .. MaxAngles |-> 0]
    /\ mainpc' = "spawn"
    /\ mi' = 0
    /\ wpc' = [w \in 1 .. MaxCores |-> "unstarted"]
    /\ wjob' = [w \in 1 .. MaxCores |-> -1]
    /\ wrinit' = [w \in 1 .. MaxCores |-> NoJob]
    /\ UNCHANGED <<NSz, Nalpha, iSingle_alpha, cores, exceptionMutex>>

(***************************************************************************)
(* One ray trace: RayInit, RayUpdate, RayTerminate (trace.hpp) under the   *)
(* trace loop of main.hpp.  Step, Reflect, GetBdrySeg, EvaluateSSP and     *)
(* the beam-pattern table are outside these sources: the environment is a *)
(* flat sea surface and a flat bottom, sound speed 1, and a Step that      *)
(* moves the ray by one unit along an axis and reports its two crossing    *)
(* flags freely.  Depth (the last coordinate) grows downwards.  Angles are *)
(* in quarter turns, so that their sines and cosines are exact.            *)
(***************************************************************************)
RayPos == [NSx |-> 1, Sx |-> <<0>>, NSy |-> 1, Sy |-> <<0>>, NSz |-> 4, Sz |-> <<0, 1, 2, 4>>]

Angles == [Nalpha |-> 2, alpha |-> <<0, 1>>, Nbeta |-> 2, beta |-> <<0, 1>>]

\* Beam->Box: the half-widths of the beam box
Beam == [Box |-> [x |-> 2, y |-> 2, z |-> 3, r |-> 2]]

\* the boundaries: their depth, the (x, y) of their first node bd[0] and the x of the
\* first node of the last row / the y of the last node of the first row
bdinfo == [top |-> [depth |-> 1, x0 |-> <<-2, -1>>, xN |-> <<1, 1>>],
           bot |-> [depth |-> 4, x0 |-> <<-1, -1>>, xN |-> <<1, 1>>]]

\* what the source beam pattern interpolates to for each launch angle (Amp0)
beaminfo == [Amp0 |-> <<6, 5>>]

\* the amplitude a reflection loses: a perfect surface, a lossy bottom
refl == [top |-> [loss |-> 0], bot |-> [loss |-> 1]]

\* what a read past the end of Angles->beta may deliver
BetaGarbage == {3}

CosQ(q) == CASE q % 4 = 0 -> 1 [] q % 4 = 2 -> -1 [] OTHER -> 0

SinQ(q) == CASE q % 4 = 1 -> 1 [] q % 4 = 3 -> -1 [] OTHER -> 0

Max(a, b) == IF a >= b THEN a ELSE b

VAdd(a, b) == [i \in 1..Len(a) |-> a[i] + b[i]]

VSub(a, b) == [i \in 1..Len(a) |-> a[i] - b[i]]

Dot(a, b) == IF Len(a) = 2 THEN a[1] * b[1] + a[2] * b[2]
             ELSE a[1] * b[1] + a[2] * b[2] + a[3] * b[3]

\* depth of a point: its last coordinate
DEP(x) == x[Len(x)]

\* GetBdrySeg: the boundary point and the outward normal of the segment above / below
\* the ray, in the dimension of the ray coordinate handed to Distances
GetBdrySeg(dim, isTop) ==
    LET depth == IF isTop THEN bdinfo.top.depth ELSE bdinfo.bot.depth
        nz    == IF isTop THEN -1 ELSE 1
    IN  IF dim = 2 THEN [x |-> <<0, depth>>, n |-> <<0, nz>>]
        ELSE [x |-> <<0, 0, depth>>, n |-> <<0, 0, nz>>]

Distances(rayx, Topx, Botx, Topn, Botn) ==
    LET dTop == VSub(rayx, Topx)
        dBot == VSub(rayx, Botx)
    IN  [Top |-> -Dot(Topn, dTop), Bot |-> -Dot(Botn, dBot)]

DistancesAt(rayx) ==
    LET top == GetBdrySeg(Len(rayx), TRUE)
        bot == GetBdrySeg(Len(rayx), FALSE)
    IN  Distances(rayx, top.x, bot.x, top.n, bot.n)

RayToOceanX(x, o) ==
    IF O3D /\ ~R3D
    THEN <<o.xs[1] + x[1] * o.tradial[1], o.xs[2] + x[1] * o.tradial[2], x[2]>>
    ELSE x

NoPoint == [x |-> <<0, 0>>, t |-> <<0, 0>>, Amp |-> 0]

NoDist == [BegTop |-> 0, BegBot |-> 0, EndTop |-> 0, EndBot |-> 0]

NoOrg == [xs |-> <<0, 0, 0>>, tradial |-> <<0, 0>>]

NoUpd == [topRefl |-> FALSE, botRefl |-> FALSE, numRaySteps |-> 0, reflects |-> << >>,
          point2 |-> FALSE]

NoTerm == [called |-> FALSE, leftbox |-> FALSE, lostenergy |-> FALSE,
           escapedboundaries |-> FALSE, escaped0bdry |-> FALSE, backward |-> FALSE,
           budget |-> FALSE, stop |-> FALSE]

\* ---- the jobs handed to RayInit
TableSize(tab) ==
    CASE tab = "Sx" -> RayPos.NSx
      [] tab = "Sy" -> RayPos.NSy
      [] tab = "Sz" -> RayPos.NSz
      [] tab = "alpha" -> Angles.Nalpha
      [] tab = "beta" -> Angles.Nbeta

InBounds(rd) == 0 <= rd[2] /\ rd[2] < TableSize(rd[1])

JobIndices(ri) == {<<"Sx", ri.isx>>, <<"Sy", ri.isy>>, <<"Sz", ri.isz>>,
                   <<"alpha", ri.ialpha>>, <<"beta", ri.ibeta>>}

\* every job with at most one index out of its table, by one or at its end; a 2D job has
\* no horizontal source index
RayJobs(o3d) ==
    {ri \in [isx : IF o3d THEN -1..RayPos.NSx ELSE {0},
             isy : IF o3d THEN -1..RayPos.NSy ELSE {0},
             isz : -1..RayPos.NSz, ialpha : -1..Angles.Nalpha, ibeta : -1..Angles.Nbeta,
             xs : {<< >>}, SrcDeclAngle : {0}, SrcAzimAngle : {0}] :
        Cardinality({rd \in JobIndices(ri) : ~InBounds(rd)}) <= 1}

\* Origin of a full-3D ray is not assigned by RayInit: it holds what the caller left
OrgValues == {NoOrg, [xs |-> <<0, 0, 2>>, tradial |-> <<0, 0>>]}

RayModes == {<<FALSE, FALSE>>, <<TRUE, FALSE>>, <<TRUE, TRUE>>}

RayStart ==
    /\ \E m \in RayModes :
          /\ O3D = m[1]
          /\ R3D = m[2]
          /\ rinit \in RayJobs(m[1])
          /\ org \in IF m[2] THEN OrgValues ELSE {NoOrg}
    /\ runType \in {"ray", "TL"}
    /\ rpc = "init"
    /\ rayOk = "none"
    /\ reads = {}
    /\ point = NoPoint
    /\ Dist = NoDist
    /\ is = 0
    /\ istep = 0
    /\ Nsteps = -1
    /\ upd = NoUpd
    /\ term = NoTerm
    /\ ninfl = 0

RayOff ==
    /\ O3D = FALSE
    /\ R3D = FALSE
    /\ runType = "ray"
    /\ rinit = [isx |-> 0, isy |-> 0, isz |-> 0, ialpha |-> 0, ibeta |-> 0,
                xs |-> << >>, SrcDeclAngle |-> 0, SrcAzimAngle |-> 0]
    /\ org = NoOrg
    /\ rpc = "off"
    /\ rayOk = "none"
    /\ reads = {}
    /\ point = NoPoint
    /\ Dist = NoDist
    /\ is = 0
    /\ istep = 0
    /\ Nsteps = -1
    /\ upd = NoUpd
    /\ term = NoTerm
    /\ ninfl = 0

\* ---- RayInit
IndexInvalid(ri) ==
    \/ ri.isz < 0 \/ ri.isz >= RayPos.NSz
    \/ ri.ialpha < 0 \/ ri.ialpha >= Angles.Nalpha
    \/ (O3D /\ (\/ ri.isx < 0 \/ ri.isx >= RayPos.NSx
                \/ ri.isy < 0 \/ ri.isy >= RayPos.NSy
                \/ ri.ibeta < 0 \/ ri.ibeta >= Angles.Nbeta))

\* the reads of the source and angle tables at the indices of the job
InitReads(ri) ==
    (IF O3D THEN {<<"Sx", ri.isx>>, <<"Sy", ri.isy>>, <<"Sz", ri.isz>>}
            ELSE {<<"Sz", ri.isz>>})
    \cup {<<"alpha", ri.ialpha>>, <<"beta", ri.ibeta>>}

\* Angles->beta[rinit.ibeta]
BetaRead(ibeta) ==
    IF InBounds(<<"beta", ibeta>>) THEN {Angles.beta[ibeta + 1]} ELSE BetaGarbage

RayInitOk_OnBoundary(DistBegTop, DistBegBot) == ~(DistBegTop < 0 \/ DistBegBot < 0)

\* the value RayInit returns
RayInitOk(DistBegTop, DistBegBot) == ~(DistBegTop <= 0 \/ DistBegBot <= 0)

RayInitReturn_IgnoresFailure(beta) ==
    LET xs     == IF O3D THEN <<RayPos.Sx[rinit.isx + 1], RayPos.Sy[rinit.isy + 1],
                                RayPos.Sz[rinit.isz + 1]>>
                  ELSE <<0, RayPos.Sz[rinit.isz + 1]>>
        alpha  == Angles.alpha[rinit.ialpha + 1]
        Amp0   == beaminfo.Amp0[rinit.ialpha + 1]
        tinit2 == IF R3D THEN <<CosQ(alpha) * CosQ(beta), CosQ(alpha) * SinQ(beta), SinQ(alpha)>>
                  ELSE <<CosQ(alpha), SinQ(alpha)>>
        x0     == IF O3D /\ ~R3D THEN <<0, xs[3]>> ELSE xs
        d      == DistancesAt(x0)
        ok     == RayInitOk(d.Top, d.Bot)
    IN  /\ rinit' = [rinit EXCEPT !.xs = xs, !.SrcDeclAngle = alpha, !.SrcAzimAngle = beta]
        /\ org' = IF O3D /\ ~R3D THEN [xs |-> xs, tradial |-> <<CosQ(beta), SinQ(beta)>>]
                  ELSE org
        /\ point' = [x |-> x0, t |-> tinit2, Amp |-> Amp0]
        /\ Dist' = [Dist EXCEPT !.BegTop = d.Top, !.BegBot = d.Bot]
        /\ rayOk' = ok
        /\ rpc' = "update"
        /\ Nsteps' = Nsteps

\* RayInit from the reads on, and what the driver does with the value it returns
RayInitReturn(beta) ==
    LET xs     == IF O3D THEN <<RayPos.Sx[rinit.isx + 1], RayPos.Sy[rinit.isy + 1],
                                RayPos.Sz[rinit.isz + 1]>>
                  ELSE <<0, RayPos.Sz[rinit.isz + 1]>>
        alpha  == Angles.alpha[rinit.ialpha + 1]
        Amp0   == beaminfo.Amp0[rinit.ialpha + 1]
        tinit2 == IF R3D THEN <<CosQ(alpha) * CosQ(beta), CosQ(alpha) * SinQ(beta), SinQ(alpha)>>
                  ELSE <<CosQ(alpha), SinQ(alpha)>>
        x0     == IF O3D /\ ~R3D THEN <<0, xs[3]>> ELSE xs
        d      == DistancesAt(x0)
        ok     == RayInitOk(d.Top, d.Bot)
    IN  /\ rinit' = [rinit EXCEPT !.xs = xs, !.SrcDeclAngle = alpha, !.SrcAzimAngle = beta]
        /\ org' = IF O3D /\ ~R3D THEN [xs |-> xs, tradial |-> <<CosQ(beta), SinQ(beta)>>]
                  ELSE org
        /\ point' = [x |-> x0, t |-> tinit2, Amp |-> Amp0]
        /\ Dist' = [Dist EXCEPT !.BegTop = d.Top, !.BegBot = d.Bot]
        /\ rayOk' = ok
        /\ rpc' = IF ok THEN "update" ELSE "done"
        /\ Nsteps' = IF ~ok /\ runType = "ray" THEN 1 ELSE Nsteps

RayInit ==
    /\ rpc = "init"
    /\ IF IndexInvalid(rinit)
       THEN /\ rpc' = "aborted"
            /\ UNCHANGED <<rinit, org, point, Dist, rayOk, Nsteps, reads>>
       ELSE /\ reads' = InitReads(rinit)
            /\ \/ /\ \E rd \in InitReads(rinit) : ~InBounds(rd)
                  /\ rpc' = "crashed"
                  /\ UNCHANGED <<rinit, org, point, Dist, rayOk, Nsteps>>
               \/ \E beta \in BetaRead(rinit.ibeta) : RayInitReturn(beta)
    /\ UNCHANGED <<O3D, R3D, runType, is, istep, upd, term, ninfl>>

\* ---- RayUpdate
\* Step: the displacements it may produce for a ray coordinate of the given dimension
StepDeltas(dim) ==
    IF dim = 2 THEN {<<1, 0>>, <<-1, 0>>, <<0, 1>>, <<0, -1>>}
    ELSE {<<1, 0, 0>>, <<-1, 0, 0>>, <<0, 1, 0>>, <<0, -1, 0>>, <<0, 0, 1>>, <<0, 0, -1>>}

Step(p, d) == [x |-> VAdd(p.x, d), t |-> d, Amp |-> p.Amp]

\* Reflect: the ray leaves the boundary point with its vertical direction reversed
Reflect(p, isTop) ==
    LET loss == IF isTop THEN refl.top.loss ELSE refl.bot.loss
    IN  [x |-> p.x,
         t |-> [i \in 1..Len(p.t) |-> IF i = Len(p.t) THEN -p.t[i] ELSE p.t[i]],
         Amp |-> Max(p.Amp - loss, 0)]

ReflectCalls_TopAndBottom(topRefl, botRefl) ==
    (IF topRefl THEN <<"top">> ELSE << >>) \o (IF botRefl THEN <<"bot">> ELSE << >>)

\* the calls of Reflect that one RayUpdate makes, in order
ReflectCalls(topRefl, botRefl) ==
    IF topRefl \/ botRefl THEN << IF topRefl THEN "top" ELSE "bot" >> ELSE << >>

RECURSIVE ApplyReflects(_, _)
ApplyReflects(p, calls) ==
    IF calls = << >> THEN p
    ELSE ApplyReflects(Reflect(p, Head(calls) = "top"), Tail(calls))

RayUpdate ==
    /\ rpc = "update"
    /\ \E d \in StepDeltas(Len(point.x)), topRefl \in BOOLEAN, botRefl \in BOOLEAN :
          LET point1      == Step(point, d)
              calls       == ReflectCalls(topRefl, botRefl)
              point2      == ApplyReflects(point1, calls)
              numRaySteps == IF calls = << >> THEN 1 ELSE 2
              newest      == IF numRaySteps = 2 THEN point2 ELSE point1
              dEnd        == DistancesAt(RayToOceanX(newest.x, org))
          IN  /\ upd' = [topRefl |-> topRefl, botRefl |-> botRefl,
                         numRaySteps |-> numRaySteps, reflects |-> calls,
                         point2 |-> calls # << >>]
              /\ Dist' = [Dist EXCEPT !.EndTop = dEnd.Top, !.EndBot = dEnd.Bot]
              /\ ninfl' = IF runType = "TL" THEN ninfl + (IF numRaySteps = 2 THEN 2 ELSE 1)
                          ELSE ninfl
              /\ IF runType = "TL" /\ numRaySteps \notin {1, 2}
                 THEN rpc' = "aborted" /\ UNCHANGED <<point, is>>
                 ELSE /\ point' = newest
                      /\ is' = is + numRaySteps
                      /\ rpc' = "terminate"
    /\ UNCHANGED <<O3D, R3D, runType, rinit, org, rayOk, reads, istep, Nsteps, term>>

\* ---- RayTerminate
LeftBox(p, o) ==
    IF O3D
    THEN LET x_o == RayToOceanX(p.x, o)
         IN  \/ Abs(x_o[1] - o.xs[1]) > Beam.Box.x
             \/ Abs(x_o[2] - o.xs[2]) > Beam.Box.y
             \/ Abs(x_o[3] - o.xs[3]) > Beam.Box.z
    ELSE Abs(p.x[1]) > Beam.Box.r \/ Abs(p.x[2]) > Beam.Box.z

Escaped0Bdry(p, o) ==
    IF O3D
    THEN LET x_o == RayToOceanX(p.x, o)
         IN  \/ x_o[1] < Max(bdinfo.bot.x0[1], bdinfo.top.x0[1])
             \/ x_o[2] < Max(bdinfo.bot.x0[2], bdinfo.top.x0[2])
    ELSE FALSE

EscapedNBdry(p, o) ==
    IF O3D
    THEN LET x_o == RayToOceanX(p.x, o)
         IN  \/ x_o[1] > Max(bdinfo.bot.xN[1], bdinfo.top.xN[1])
             \/ x_o[2] > Max(bdinfo.bot.xN[2], bdinfo.top.xN[2])
    ELSE FALSE

EscapedBoundaries_CurrentOnly(p, o, D) ==
    IF O3D THEN Escaped0Bdry(p, o) \/ EscapedNBdry(p, o)
    ELSE D.EndTop < 0 \/ D.EndBot < 0

EscapedBoundaries(p, o, D) ==
    IF O3D THEN Escaped0Bdry(p, o) \/ EscapedNBdry(p, o)
    ELSE \/ (D.BegTop < 0 /\ D.EndTop < 0)
         \/ (D.BegBot < 0 /\ D.EndBot < 0)

LostEnergy_Inclusive(p) == p.Amp <= 5

\* point.Amp < 0.005, in units of 0.001
LostEnergy(p) == p.Amp < 5

Backward_AlsoIn2D(p) == IF ~R3D THEN p.t[1] < 0 ELSE FALSE

\* backward = point.t.x < 0 in a 2D-in-3D run, false in a 2D and in a 3D run
Backward(p) == IF O3D /\ ~R3D THEN p.t[1] < 0 ELSE FALSE

StepBudgetReached_NoWindow(i) == i >= MaxN - 1

StepBudgetReached_AtMaxN(i) == i >= MaxN

\* else if(is >= MaxN - 3): no room left for the three-point window of another step
StepBudgetReached(i) == i >= MaxN - 3

RayTerminate ==
    /\ rpc = "terminate"
    /\ LET leftbox           == LeftBox(point, org)
           escaped0bdry      == Escaped0Bdry(point, org)
           escapedboundaries == EscapedBoundaries(point, org, Dist)
           lostenergy        == LostEnergy(point)
           backward          == Backward(point)
           stop              == leftbox \/ lostenergy \/ escapedboundaries \/ backward
           budget            == ~stop /\ StepBudgetReached(is)
       IN  /\ term' = [called |-> TRUE, leftbox |-> leftbox, lostenergy |-> lostenergy,
                       escapedboundaries |-> escapedboundaries,
                       escaped0bdry |-> escaped0bdry, backward |-> backward,
                       budget |-> budget, stop |-> stop \/ budget]
           /\ IF stop
              THEN /\ Nsteps' = IF O3D /\ escaped0bdry THEN is ELSE is + 1
                   /\ rpc' = "done"
                   /\ UNCHANGED <<Dist, istep>>
              ELSE IF budget
              THEN /\ Nsteps' = is
                   /\ rpc' = "done"
                   /\ UNCHANGED <<Dist, istep>>
              ELSE /\ Dist' = [Dist EXCEPT !.BegTop = Dist.EndTop, !.BegBot = Dist.EndBot]
                   /\ istep' = istep + 1
                   /\ rpc' = IF istep + 1 < MaxN - 1 THEN "update" ELSE "done"
                   /\ UNCHANGED Nsteps
    /\ UNCHANGED <<O3D, R3D, runType, rinit, org, rayOk, reads, point, is, upd, ninfl>>

(***************************************************************************)
(* The unformatted output file (util/unformattedio.hpp).  The file is      *)
(* kept as its length, the put position and the int32 fields written into *)
(* it, by offset; every byte that is not under a field is payload.         *)
(* Offsets, lengths and sizes are counted in words of 4 bytes, which is    *)
(* exact for int32 fields and for payload types of 4 and 8 bytes: an       *)
(* int32_t byte count ranges over -2^29 .. 2^29 - 1 words.                 *)
(***************************************************************************)

\* the number of member-function fcalls followed before the destructor
MaxOps == 5

\* the most payload followed, in words (6 GiB)
MaxFileSize == 1610612736

\* sizeof(T) of write(T v) and of the elements of write(T *arr, size_t n), in words: 4 and
\* 8 bytes
ScalarSizes == {1, 2}

\* n of write(T *arr, size_t n): none, a few, and as many floats as make 2 GiB - 8 bytes
ArrayCounts == {0, 3, 2^29 - 2}

\* int32_t arithmetic on byte counts, in words: the two's-complement result of the build
Wrap32(x) == ((x + 2^29) % 2^30) - 2^29

NoStream == [is_open |-> FALSE, fail |-> FALSE, pos |-> 0, size |-> 0, lens |-> {}]

FileOff ==
    /\ ostr = NoStream
    /\ recstart = -1
    /\ recl = -1
    /\ fpc = "off"
    /\ fcalls = << >>

\* the constructor: recstart(-1), recl(-1), the stream not open
FileInit ==
    /\ ostr = NoStream
    /\ recstart = -1
    /\ recl = -1
    /\ fpc = "live"
    /\ fcalls = << >>

\* ostr.seekp(p): a negative position fails the stream
seekp(s, p) ==
    IF ~s.is_open \/ s.fail THEN s
    ELSE IF p < 0 THEN [s EXCEPT !.fail = TRUE]
    ELSE [s EXCEPT !.pos = p]

\* the fields of s that a write of n bytes at the put position leaves whole
FieldsKept(s, n) == {m \in s.lens : m.at < s.pos \/ m.at >= s.pos + n}

\* ostr.write of n payload bytes
WriteBytes(s, n) ==
    IF ~s.is_open \/ s.fail THEN s
    ELSE [s EXCEPT !.lens = FieldsKept(s, n),
                   !.pos = s.pos + n,
                   !.size = Max(s.size, s.pos + n)]

\* ostr.write((const char *)&v, 4) of an int32_t v, a byte count kept in words
WriteInt32(s, v) ==
    IF ~s.is_open \/ s.fail THEN s
    ELSE [s EXCEPT !.lens = FieldsKept(s, 1) \cup {[at |-> s.pos, val |-> v]},
                   !.pos = s.pos + 1,
                   !.size = Max(s.size, s.pos + 1)]

\* FinishRecord, on f = [ostr, recstart, recl]
FinishRecord(f) ==
    IF f.recstart < 0 \/ f.recl < 0
    THEN [f EXCEPT !.recstart = 0, !.recl = 0]
    ELSE LET head == WriteInt32(seekp(f.ostr, f.recstart), f.recl)
             tail == WriteInt32(seekp(head, Wrap32(f.recstart + 1 + f.recl)), f.recl)
         IN  [ostr |-> tail, recstart |-> Wrap32(f.recstart + f.recl + 2), recl |-> 0]

File == [ostr |-> ostr, recstart |-> recstart, recl |-> recl]

\* open(path): the file is created empty
open ==
    /\ fpc = "live"
    /\ Len(fcalls) < MaxOps
    /\ ~ostr.is_open
    /\ ostr' = [NoStream EXCEPT !.is_open = TRUE]
    /\ fcalls' = Append(fcalls, [op |-> "open", bytes |-> 0, threw |-> FALSE])
    /\ UNCHANGED <<recstart, recl, fpc>>

\* rec()
rec ==
    /\ fpc = "live"
    /\ Len(fcalls) < MaxOps
    /\ LET f == FinishRecord(File)
       IN  /\ ostr' = WriteInt32(f.ostr, 0)
           /\ recstart' = f.recstart
           /\ recl' = f.recl
    /\ fcalls' = Append(fcalls, [op |-> "rec", bytes |-> 0, threw |-> FALSE])
    /\ UNCHANGED fpc

\* the payload the calls so far asked to be written
RECURSIVE Asked(_)
Asked(cs) == IF cs = << >> THEN 0 ELSE Head(cs).bytes + Asked(Tail(cs))

\* write(T v) with sizeof(T) = size, and write(T *arr, size_t n) with n * sizeof(T) = size
write(size) ==
    /\ fpc = "live"
    /\ Len(fcalls) < MaxOps
    /\ size <= MaxFileSize - Asked(fcalls)
    /\ fcalls' = Append(fcalls, [op |-> "write", bytes |-> size, threw |-> recstart < 0])
    /\ IF recstart < 0
       THEN /\ fpc' = "error"
            /\ UNCHANGED <<ostr, recstart, recl>>
       ELSE /\ ostr' = WriteBytes(ostr, size)
            /\ recl' = Wrap32(recl + Wrap32(size))
            /\ UNCHANGED <<recstart, fpc>>

\* ~UnformattedOFile()
Destroy ==
    /\ fpc \in {"live", "error"}
    /\ IF ostr.is_open
       THEN LET f == FinishRecord(File)
            IN  /\ ostr' = [f.ostr EXCEPT !.is_open = FALSE]
                /\ recstart' = f.recstart
                /\ recl' = f.recl
       ELSE UNCHANGED <<ostr, recstart, recl>>
    /\ fpc' = "destroyed"
    /\ UNCHANGED fcalls


RayNext ==
    \/ RayInit /\ UNCHANGED <<arrVars, dispVars, fileVars>>
    \/ RayUpdate /\ UNCHANGED <<arrVars, dispVars, fileVars>>
    \/ RayTerminate /\ UNCHANGED <<arrVars, dispVars, fileVars>>

DispNext ==
    \/ SpawnThread /\ UNCHANGED <<arrVars, rayVars, fileVars>>
    \/ JoinThread /\ UNCHANGED <<arrVars, rayVars, fileVars>>
    \/ \E w \in Threads : WorkerFetch(w) /\ UNCHANGED <<arrVars, rayVars, fileVars>>
    \/ \E w \in Threads : WorkerRunJob(w) /\ UNCHANGED <<arrVars, rayVars, fileVars>>
    \/ \E w \in Threads : WorkerThrow(w) /\ UNCHANGED <<arrVars, rayVars, fileVars>>
    \/ \E w \in Threads : WorkerLock(w) /\ UNCHANGED <<arrVars, rayVars, fileVars>>
    \/ \E w \in Threads : WorkerAppend(w) /\ UNCHANGED <<arrVars, rayVars, fileVars>>
ArrNext ==
    \/ \E args \in AddArrInputs : AddArrMerging(args) /\ UNCHANGED <<applied, dispVars, rayVars, fileVars>>
    \/ \E w \in Workers, args \in AddArrInputs : AddArrFetchAdd(w, args) /\ UNCHANGED <<applied, dispVars, rayVars, fileVars>>
    \/ \E w \in Workers : AddArrWrite(w) /\ UNCHANGED <<applied, dispVars, rayVars, fileVars>>

\* the candidates of the order experiments: two amplitudes, three kinds, all for cell 0
OrderInputs == { AddArrArgs(0, a, w, k) : a \in {1, 2}, w \in Omegas, k \in {0, 1, 2} }

Record(args) == applied' = [applied EXCEPT ![args.base] = Append(@, args)]

\* the same AddArr calls, with the candidates handed to each cell recorded
OrderNext ==
    \/ \E args \in OrderInputs : AddArrMerging(args) /\ Record(args) /\ UNCHANGED <<dispVars, rayVars, fileVars>>
    \/ \E w \in Workers, args \in OrderInputs :
          AddArrFetchAdd(w, args) /\ Record(args) /\ UNCHANGED <<dispVars, rayVars, fileVars>>
    \/ \E w \in Workers : AddArrWrite(w) /\ UNCHANGED <<applied, dispVars, rayVars, fileVars>>

\* the arrival table under any sequence (one worker) or interleaving (several) of AddArr calls
InitArr == ArrInit /\ DispOff /\ RayOff /\ FileOff

SpecArr == InitArr /\ [][ArrNext]_vars

\* arrinfo->ArrMemSize of the order experiments: room for 1 and for 3 arrivals per cell
OrderMemSizes == {80, 240}

InitOrder ==
    /\ \E maxThreads \in 1 .. MaxThreads, memSize \in OrderMemSizes :
           InitArrivalsMode(maxThreads, FALSE, memSize)
    /\ apc = [w \in 1 .. MaxThreads |-> "idle"]
    /\ aNt = [w \in 1 .. MaxThreads |-> 0]
    /\ aArgs = [w \in 1 .. MaxThreads |-> NoArgs]
    /\ ncalls = 0
    /\ last = NoLast
    /\ nwrites = [c \in Cells |-> [i \in 0 .. (MaxNArr - 1) |-> 0]]
    /\ touched = {}
    /\ applied = [c \in Cells |-> << >>]
    /\ DispOff
    /\ RayOff
    /\ FileOff

\* the arrival table under the order experiments
SpecOrder == InitOrder /\ [][OrderNext]_vars

\* RunFieldModesImpl: one run of the dispatcher from the state after program start
InitDisp == DispInit /\ ArrOff /\ RayOff /\ FileOff

SpecDisp == InitDisp /\ [][DispNext]_vars

\* the same run under a scheduler that lets every thread that can take a step take one
SpecDispLive == InitDisp /\ [][DispNext]_vars /\ WF_vars(DispNext)

\* up to MaxRuns runs of the dispatcher in one process, each started and ended by the caller
RunsNext ==
    \/ DispNext
    \/ CallerCheckErrors /\ UNCHANGED <<arrVars, rayVars, fileVars>>
    \/ CallerRunAgain /\ UNCHANGED <<arrVars, rayVars, fileVars>>

SpecRuns == InitDisp /\ [][RunsNext]_vars

\* ---- one worker running the jobs of a 2D run through the ray trace
\* MainFieldModes(rinit, ...) is entered with the indices GetJobIndices decoded
JobBegin(w) ==
    /\ wpc[w] = "run"
    /\ rpc = "off"
    /\ rinit' = [isx |-> 0, isy |-> 0, isz |-> wrinit[w].isrc, ialpha |-> wrinit[w].ialpha,
                 ibeta |-> 0, xs |-> << >>, SrcDeclAngle |-> 0, SrcAzimAngle |-> 0]
    /\ rpc' = "init"
    /\ rayOk' = "none"
    /\ reads' = {}
    /\ point' = NoPoint
    /\ Dist' = NoDist
    /\ is' = 0
    /\ istep' = 0
    /\ Nsteps' = -1
    /\ upd' = NoUpd
    /\ term' = NoTerm
    /\ ninfl' = 0
    /\ UNCHANGED <<O3D, R3D, runType, org>>

\* MainFieldModes returns and the loop of FieldModesWorker goes round
JobEnd(w) ==
    /\ rpc = "done"
    /\ WorkerRunJob(w)
    /\ rpc' = "off"
    /\ UNCHANGED <<O3D, R3D, runType, rinit, org, rayOk, reads, point, Dist, is, istep,
                   Nsteps, upd, term, ninfl>>

JobsNext ==
    \/ SpawnThread /\ UNCHANGED <<arrVars, rayVars, fileVars>>
    \/ JoinThread /\ UNCHANGED <<arrVars, rayVars, fileVars>>
    \/ \E w \in Threads : WorkerFetch(w) /\ UNCHANGED <<arrVars, rayVars, fileVars>>
    \/ \E w \in Threads : JobBegin(w) /\ UNCHANGED <<arrVars, dispVars, fileVars>>
    \/ RayInit /\ UNCHANGED <<arrVars, dispVars, fileVars>>
    \/ RayUpdate /\ UNCHANGED <<arrVars, dispVars, fileVars>>
    \/ RayTerminate /\ UNCHANGED <<arrVars, dispVars, fileVars>>
    \/ \E w \in Threads : JobEnd(w) /\ UNCHANGED <<arrVars, fileVars>>

\* a 2D run by one worker: the sources and angles of the ray environment, run in ray
\* mode or in TL mode
InitJobs ==
    /\ ArrOff
    /\ NSz = RayPos.NSz
    /\ Nalpha = Angles.Nalpha
    /\ iSingle_alpha \in -1 .. (Angles.Nalpha - 1)
    /\ cores = 1
    /\ sharedJobID = 0
    /\ exceptionStr = << >>
    /\ exceptionMutex = 0
    /\ mainpc = "spawn"
    /\ mi = 0
    /\ wpc = [w \in 1 .. MaxCores |-> "unstarted"]
    /\ wjob = [w \in 1 .. MaxCores |-> -1]
    /\ wrinit = [w \in 1 .. MaxCores |-> NoJob]
    /\ processed = [s \in 0 .. RayPos.NSz, a \in 0 .. Angles.Nalpha |-> 0]
    /\ nruns = 1
    /\ drawn = << >>
    /\ O3D = FALSE
    /\ R3D = FALSE
    /\ runType \in {"ray", "TL"}
    /\ rinit = [isx |-> 0, isy |-> 0, isz |-> 0, ialpha |-> 0, ibeta |-> 0,
                xs |-> << >>, SrcDeclAngle |-> 0, SrcAzimAngle |-> 0]
    /\ org = NoOrg
    /\ rpc = "off"
    /\ rayOk = "none"
    /\ reads = {}
    /\ point = NoPoint
    /\ Dist = NoDist
    /\ is = 0
    /\ istep = 0
    /\ Nsteps = -1
    /\ upd = NoUpd
    /\ term = NoTerm
    /\ ninfl = 0
    /\ FileOff

SpecJobs == InitJobs /\ [][JobsNext]_vars

\* the same run with the worker and the main thread always taking their next step
SpecJobsLive == InitJobs /\ [][JobsNext]_vars /\ WF_vars(JobsNext)

\* one ray trace, for every job and every dimensionality
InitRay == RayStart /\ ArrOff /\ DispOff /\ FileOff

SpecRay == InitRay /\ [][RayNext]_vars

FileNext ==
    \/ open /\ UNCHANGED <<arrVars, dispVars, rayVars>>
    \/ rec /\ UNCHANGED <<arrVars, dispVars, rayVars>>
    \/ \E size \in ScalarSizes : write(size) /\ UNCHANGED <<arrVars, dispVars, rayVars>>
    \/ \E n \in ArrayCounts, size \in ScalarSizes :
          write(n * size) /\ UNCHANGED <<arrVars, dispVars, rayVars>>
    \/ Destroy /\ UNCHANGED <<arrVars, dispVars, rayVars>>

\* one output file from its construction to its destruction
InitFile == FileInit /\ ArrOff /\ DispOff /\ RayOff

SpecFile == InitFile /\ [][FileNext]_vars

(***************************************************************************)
(* Properties of the arrival table.                                        *)
(***************************************************************************)

\* C1: in every reachable state, in both modes, every cell's stored count NArr[cell] is
\* at most MaxNArr.  (Stated as claimed; the atomic-append branch increments the count of
\* a full cell, so TLC finds it violated.)
C1_CountWithinCapacity == \A c \in Cells : NArr[c] <= MaxNArr

\* C2: in atomic-append mode, under every interleaving, every slot index an AddArr call
\* holds or has written is in 0 .. MaxNArr-1, no slot is written by more than one call
\* (two calls in flight never hold the same slot, and a slot held by a call in flight has
\* not been written), so at most MaxNArr arrivals are written into a cell.
C2_AtomicAppendNoDoubleWrite ==
    ~AllowMerging =>
        /\ \A c \in Cells : \A i \in DOMAIN nwrites[c] : nwrites[c][i] <= 1
        /\ \A w \in Workers : apc[w] = "write" =>
               /\ aNt[w] \in 0 .. (MaxNArr - 1)
               /\ nwrites[aArgs[w].base][aNt[w]] = 0
               /\ \A v \in Workers \ {w} :
                      (apc[v] = "write" /\ aArgs[v].base = aArgs[w].base) => aNt[v] # aNt[w]
        /\ last.op = "write" => last.iArr \in 0 .. (MaxNArr - 1)

\* C2 witness: a full cell whose slots were each written once, a further call discarded
\* while another worker's call was still in flight
C2_Witness ==
    /\ ~AllowMerging
    /\ MaxNArr = 2
    /\ NArr[0] > MaxNArr
    /\ nwrites[0][0] = 1
    /\ \E w \in Workers : apc[w] = "write" /\ aArgs[w].base = 0 /\ aNt[w] = 1

\* the tolerance test of the claim: omega*|B.delay - A.delay| < 0.05 and |B.phase - A.phase| < 0.05
WithinTolerances(omega, B, A) ==
    /\ OmegaAbsLess(omega, CSub(B.delay, A.delay), PhaseTol)
    /\ Abs(B.Phase - A.Phase) < PhaseTol

\* slots of cell c other than slot i keep their contents in this step
OtherSlotsUnchanged(c, i) == \A j \in DOMAIN Arr[c] : j # i => Arr'[c][j] = Arr[c][j]

\* C4: in merge-enabled mode, if an AddArr call stored arrival A in a cell (appended it, or
\* replaced the weakest arrival with it) and the next AddArr call is on that cell with a
\* candidate B within both tolerances of A, then B is merged into the slot holding A: the
\* count does not grow and no other slot changes.  (Stated as claimed; TLC finds it violated
\* when A replaced the weakest arrival in a slot other than the last.)
C4_PairAlwaysMergesIntoA ==
    [][ ( /\ AllowMerging
          /\ last.op \in {"append", "replace"}
          /\ ncalls' = ncalls + 1
          /\ last'.base = last.base
          /\ WithinTolerances(last'.args.omega, last'.args, last.args) )
        => ( /\ last'.op = "merge"
             /\ last'.iArr = last.iArr
             /\ NArr' = NArr
             /\ OtherSlotsUnchanged(last.base, last.iArr) ) ]_vars

REq(x, y) == ~IsNaN(x) /\ ~IsNaN(y) /\ x[1] * y[2] = y[1] * x[2]

RLeq(x, y) == ~IsNaN(x) /\ ~IsNaN(y) /\ x[1] * y[2] <= y[1] * x[2]

RBetween(x, lo, hi) == (RLeq(lo, x) /\ RLeq(x, hi)) \/ (RLeq(hi, x) /\ RLeq(x, lo))

\* (a1 + a2) * merged = a1 * stored + a2 * candidate
IsWeightedAverage(merged, a1, stored, a2, cand) ==
    REq(RMul(Rat(a1 + a2), merged), RAdd(RMul(Rat(a1), stored), RMul(Rat(a2), cand)))

\* C5: when AddArr merges a candidate of amplitude a2 into a stored arrival of amplitude a1
\* with a1 + a2 > 0, the slot's amplitude becomes a1 + a2, its delay becomes
\* (a1*delay1 + a2*delay2)/(a1 + a2), which lies between the two delays, and each of the
\* four angle fields becomes the same amplitude-weighted average.
C5_MergeIsWeightedAverage ==
    [][ ( /\ ncalls' = ncalls + 1
          /\ last'.op = "merge"
          /\ Arr[last'.base][last'.iArr].a + last'.args.Amp > 0 )
        => LET old == Arr[last'.base][last'.iArr]
               new == Arr'[last'.base][last'.iArr]
               B == last'.args
               a1 == old.a
               a2 == B.Amp
           IN  /\ new.a = a1 + a2
               /\ \A k \in {1, 2} :
                      /\ IsWeightedAverage(new.delay[k], a1, old.delay[k], a2, B.delay[k])
                      /\ RBetween(new.delay[k], old.delay[k], B.delay[k])
               /\ IsWeightedAverage(new.SrcDeclAngle, a1, old.SrcDeclAngle, a2, B.SrcDeclAngle)
               /\ IsWeightedAverage(new.SrcAzimAngle, a1, old.SrcAzimAngle, a2, B.SrcAzimAngle)
               /\ IsWeightedAverage(new.RcvrDeclAngle, a1, old.RcvrDeclAngle, a2, B.RcvrDeclAngle)
               /\ IsWeightedAverage(new.RcvrAzimAngle, a1, old.RcvrAzimAngle, a2, B.RcvrAzimAngle) ]_vars

\* C5 witness: a merge of two arrivals of different positive amplitudes and different
\* delays has happened (the slot holds 3 = 1 + 2 and a delay strictly inside the segment)
C5_Witness ==
    /\ last.op = "merge"
    /\ last.args.Amp = 2
    /\ Arr[last.base][last.iArr].a = 3
    /\ Arr[last.base][last.iArr].delay # last.args.delay
    /\ Arr[last.base][last.iArr].delay[1][2] = 3

\* the smallest amplitude stored in the slots of a full cell
IsSmallestAmp(c, i) == \A j \in DOMAIN Arr[c] : Arr[c][i].a <= Arr[c][j].a

\* the candidate does not pair with the most recently stored arrival of cell c
NotPairing(c, B) ==
    ~(NArr[c] >= 1 /\ WithinTolerances(B.omega, B, Arr[c][NArr[c] - 1]))

\* C6: in merge-enabled mode, a non-pairing candidate at a cell whose count equals MaxNArr
\* replaces the stored arrival of smallest amplitude (all nine fields, every other slot
\* unchanged) if some stored amplitude is strictly smaller than the candidate's, and
\* otherwise leaves the cell unchanged; the count stays MaxNArr either way.
C6_FullCellReplaceWeakestOrDrop ==
    [][ ( /\ AllowMerging
          /\ ncalls' = ncalls + 1
          /\ NArr[last'.base] = MaxNArr
          /\ NotPairing(last'.base, last'.args) )
        => LET c == last'.base
               B == last'.args
           IN  /\ NArr' = NArr
               /\ \A d \in Cells \ {c} : Arr'[d] = Arr[d]
               /\ IF \E j \in DOMAIN Arr[c] : Arr[c][j].a < B.Amp
                  THEN \E i \in DOMAIN Arr[c] :
                           /\ IsSmallestAmp(c, i)
                           /\ last'.op = "replace" /\ last'.iArr = i
                           /\ OtherSlotsUnchanged(c, i)
                           /\ Arr'[c][i] =
                                  [a |-> B.Amp, Phase |-> B.Phase, delay |-> B.delay,
                                   SrcDeclAngle |-> B.SrcDeclAngle,
                                   SrcAzimAngle |-> B.SrcAzimAngle,
                                   RcvrDeclAngle |-> B.RcvrDeclAngle,
                                   RcvrAzimAngle |-> B.RcvrAzimAngle,
                                   NTopBnc |-> B.NumTopBnc, NBotBnc |-> B.NumBotBnc]
                  ELSE last'.op = "drop" /\ Arr' = Arr ]_vars

\* C6 witness: a full two-slot cell whose weakest arrival, in the second slot, was replaced
C6_Witness ==
    /\ AllowMerging
    /\ MaxNArr = 2
    /\ last.op = "replace"
    /\ last.iArr = 1
    /\ NArr[last.base] = MaxNArr
    /\ Arr[last.base][1].a = last.args.Amp
    /\ Arr[last.base][0].a < last.args.Amp

(***************************************************************************)
(* Properties of the dispatcher.                                           *)
(***************************************************************************)
RECURSIVE SumOver(_, _)
SumOver(f, S) == IF S = {} THEN 0 ELSE LET x == CHOOSE x \in S : TRUE IN f[x] + SumOver(f, S \ {x})

TotalProcessed == SumOver(processed, DOMAIN processed)

\* the (source, angle) pairs the run is to trace: every pair, or every source at the single angle
WantedPair(s, a) ==
    s < NSz /\ (IF iSingle_alpha >= 0 THEN a = iSingle_alpha ELSE a < Nalpha)

\* C3: with more than one worker and no worker exception, once RunFieldModesImpl has joined
\* all workers every (source, angle) pair of the run has been through the per-job pipeline
\* exactly once and nothing else has: N*M jobs in all (N when a single launch angle is
\* requested), for every interleaving of the workers.
C3_EveryPairExactlyOnce ==
    (mainpc = "returned" /\ cores > 1 /\ exceptionStr = << >>) =>
        /\ \A s \in 0 .. MaxSources, a \in 0 .. MaxAngles :
               processed[s, a] = IF WantedPair(s, a) THEN 1 ELSE 0
        /\ TotalProcessed = IF iSingle_alpha >= 0 THEN NSz ELSE NSz * Nalpha

\* C3 witness: a run of 2 sources x 2 angles on 2 workers has returned with no exception,
\* each worker having drawn one job index past the end
C3_Witness ==
    /\ mainpc = "returned"
    /\ cores = 2 /\ NSz = 2 /\ Nalpha = 2 /\ iSingle_alpha = -1
    /\ exceptionStr = << >>
    /\ TotalProcessed = 4
    /\ sharedJobID = 6

(***************************************************************************)
(* Properties of the ray state machine.                                    *)
(***************************************************************************)
AllInRange(ri) == \A rd \in JobIndices(ri) : InBounds(rd)

\* depth of the source of an in-range job
SrcDepth(ri) == RayPos.Sz[ri.isz + 1]

\* C7: once RayInit has run on a job whose indices are all in range, the process has not
\* aborted, RayInit returned success exactly when the source is strictly below the top
\* boundary and strictly above the bottom boundary (both signed distances > 0), and on
\* failure (a distance zero or negative) the trace is simply over.
C7_RayInitSuccessIffInside ==
    (rpc # "init" /\ AllInRange(rinit)) =>
        /\ rpc \notin {"aborted", "crashed"}
        /\ rayOk = (/\ SrcDepth(rinit) - bdinfo.top.depth > 0
                    /\ bdinfo.bot.depth - SrcDepth(rinit) > 0)
        /\ (rayOk = FALSE => rpc = "done" /\ ~term.called /\ upd = NoUpd)

\* a source exactly on the top boundary: RayInit has failed and the ray-mode driver
\* has recorded a one-point ray
C7_Witness ==
    /\ rpc = "done"
    /\ AllInRange(rinit)
    /\ SrcDepth(rinit) = bdinfo.top.depth
    /\ rayOk = FALSE
    /\ runType = "ray"
    /\ Nsteps = 1

\* the job indices RayInit uses in a run of the given dimensionality
UsedJobIndices(ri) ==
    {<<"Sz", ri.isz>>, <<"alpha", ri.ialpha>>, <<"beta", ri.ibeta>>}
    \cup (IF O3D THEN {<<"Sx", ri.isx>>, <<"Sy", ri.isy>>} ELSE {})

\* C8: once RayInit has run on a job one of whose used indices is outside its table, the
\* process has aborted without reading any table; and no table is ever read at an index
\* outside it.  (Stated as claimed; a 2D run reads Angles->beta[ibeta] without having
\* validated ibeta, so TLC finds it violated.)
C8_IndicesValidatedBeforeRead ==
    /\ (rpc # "init" /\ \E rd \in UsedJobIndices(rinit) : ~InBounds(rd)) =>
           (rpc = "aborted" /\ reads = {})
    /\ \A rd \in reads : InBounds(rd)

\* C9: every RayUpdate returns 1 or 2, and 2 exactly when Step reported a top or a bottom
\* crossing; it calls Reflect at most once - once on a crossing, for the top when the top
\* flag is set and else for the bottom - produces point2 only then, and the driver
\* advances the step index by the value returned.
C9_UpdateReturnsTwoIffCrossing ==
    [][rpc = "update" =>
          LET crossing == upd'.topRefl \/ upd'.botRefl
          IN  /\ upd'.numRaySteps \in {1, 2}
              /\ (upd'.numRaySteps = 2) <=> crossing
              /\ Len(upd'.reflects) <= 1
              /\ (Len(upd'.reflects) = 1) <=> crossing
              /\ crossing => upd'.reflects[1] = (IF upd'.topRefl THEN "top" ELSE "bot")
              /\ upd'.point2 <=> crossing
              /\ is' = is + upd'.numRaySteps
              /\ rpc' = "terminate"]_vars

\* Step reported both flags: one reflection, at the top, and two steps taken
C9_Witness ==
    /\ upd.topRefl
    /\ upd.botRefl
    /\ upd.numRaySteps = 2
    /\ upd.reflects = <<"top">>
    /\ upd.point2
    /\ is = 2

\* C10: every RayTerminate on a point whose amplitude is below 0.005 (5 in units of
\* 0.001) stops the ray and records its length; every RayTerminate on a point with
\* amplitude >= 0.005 that has not left the box, not escaped the boundaries, is not
\* travelling backward and is within the step budget lets the ray continue; so a ray
\* that continues always has amplitude >= 0.005.
C10_LostEnergyAtThreshold ==
    [][rpc = "terminate" =>
          /\ term'.lostenergy <=> (point.Amp < 5)
          /\ (point.Amp < 5) => (rpc' = "done" /\ Nsteps' \in {is, is + 1})
          /\ (/\ point.Amp >= 5
              /\ ~LeftBox(point, org)
              /\ ~EscapedBoundaries(point, org, Dist)
              /\ ~Backward(point)
              /\ is < MaxN - 3) => (rpc' = "update" /\ Nsteps' = Nsteps)
          /\ (rpc' = "update") => (point.Amp >= 5)]_vars

\* a ray that passed RayTerminate with amplitude 0.005, then lost energy at the bottom
\* and was stopped for that reason alone
C10_Witness ==
    /\ rpc = "done"
    /\ term.called
    /\ term.lostenergy
    /\ ~term.leftbox
    /\ ~term.escapedboundaries
    /\ ~term.backward
    /\ istep >= 1
    /\ point.Amp = 4
    /\ Nsteps = is + 1

\* the ray position and the source position in ocean coordinates, axis by axis, with the
\* half-width of the beam box on that axis
BoxAxes ==
    LET x_o == RayToOceanX(point.x, org)
    IN  IF O3D
        THEN {<<x_o[1], rinit.xs[1], Beam.Box.x>>, <<x_o[2], rinit.xs[2], Beam.Box.y>>,
              <<x_o[3], rinit.xs[3], Beam.Box.z>>}
        ELSE {<<x_o[1], rinit.xs[1], Beam.Box.r>>, <<x_o[2], rinit.xs[2], Beam.Box.z>>}

\* C11: in every RayTerminate, in 2D as in 3D runs, the left-the-box predicate holds
\* exactly when on some axis the absolute distance between the ray position and the
\* source position exceeds the half-width of the box on that axis.  (Stated as claimed;
\* a 2D run measures the depth from 0 and not from the source, so TLC finds it violated.)
C11_LeftBoxIsDistanceFromSource ==
    [][rpc = "terminate" =>
          (term'.leftbox <=> \E a \in BoxAxes : Abs(a[1] - a[2]) > a[3])]_vars

\* C12: whenever RayTerminate stops a ray, the recorded count leaves out the current step
\* (Nsteps = is) only if the ray went out through the near (index-0) edge of the
\* boundaries, and includes it (Nsteps = is + 1) for every other stop.  (Stated as
\* claimed; the step-budget stop records Nsteps = is, so TLC finds it violated.)
C12_NstepsExcludesOnlyNearEdge ==
    [][(rpc = "terminate" /\ term'.stop) =>
          /\ Nsteps' \in {is, is + 1}
          /\ (Nsteps' = is) => Escaped0Bdry(point, org)
          /\ ~Escaped0Bdry(point, org) => (Nsteps' = is + 1)]_vars

(***************************************************************************)
(* Properties of the dispatcher.                                           *)
(***************************************************************************)
\* the messages a worker has appended to the error buffer
MessagesOf(w) == {i \in 1 .. Len(exceptionStr) : exceptionStr[i].worker = w}

\* C13: an exception in one worker's job takes only that worker to its handler; the error
\* buffer changes only by the worker that holds the mutex appending its one message, and
\* at most one worker is between lock and append; a worker leaves its loop only after
\* appending its message or after drawing a job index past the last job; the join
\* completes in every run, and then every worker that caught an exception has exactly one
\* message in the buffer and every other worker none.
C13_ExceptionEndsOnlyThatWorker ==
    /\ [][/\ \A w \in Threads : (wpc[w] = "run" /\ wpc'[w] = "catch") =>
                 (\A v \in Threads \ {w} : wpc'[v] = wpc[v]) /\ sharedJobID' = sharedJobID
          /\ (exceptionStr' # exceptionStr) =>
                 \E w \in Threads :
                    /\ exceptionMutex = w
                    /\ wpc[w] = "append"
                    /\ exceptionStr' = Append(exceptionStr, [worker |-> w, job |-> wjob[w]])
                    /\ wpc'[w] = "done"
          /\ \A w \in Threads : (wpc[w] # "done" /\ wpc'[w] = "done") =>
                 \/ wpc[w] = "append"
                 \/ (/\ wpc[w] = "fetch"
                     /\ ~GetJobIndices(sharedJobID, NSz, Nalpha, iSingle_alpha).continue)]_vars
    /\ [](Cardinality({w \in Threads : wpc[w] = "append"}) <= 1)
    /\ []((mainpc = "returned") =>
             \A w \in Threads :
                /\ wpc[w] = "done"
                /\ Cardinality(MessagesOf(w)) = IF wjob[w] # -1 THEN 1 ELSE 0)
    /\ <>(mainpc = "returned")

\* two workers on 2 x 2 jobs: the worker that drew job 0 threw, the other one ran the
\* three remaining jobs, and the join has completed
C13_Witness ==
    /\ mainpc = "returned"
    /\ cores = 2
    /\ NSz = 2
    /\ Nalpha = 2
    /\ iSingle_alpha = -1
    /\ Len(exceptionStr) = 1
    /\ exceptionStr[1].job = 0
    /\ TotalProcessed = 3

NumJobs == IF iSingle_alpha >= 0 THEN NSz ELSE NSz * Nalpha

\* job j went through the pipeline: to its end, or up to the exception it raised
JobRan(j) ==
    LET r == GetJobIndices(j, NSz, Nalpha, iSingle_alpha)
    IN  \/ processed[r.isrc, r.ialpha] >= 1
        \/ \E i \in 1 .. Len(exceptionStr) : exceptionStr[i].job = j

\* C15: once all workers have joined, every job index 0 .. NumJobs-1 has been run through
\* the pipeline, also when workers caught exceptions and exited.  (Stated as claimed; a
\* worker that catches an exception draws no further job, so when every worker has
\* caught one the remaining jobs are never drawn and TLC finds it violated.)
C15_AllJobsProcessed ==
    (mainpc = "returned") => \A j \in 0 .. (NumJobs - 1) : JobRan(j)

\* C16: with more than one worker, no two jobs that are running at the same time can
\* write the same element of the pressure array: the sub-arrays of any two running jobs
\* are disjoint.  (Stated as claimed; the sub-array is selected by the source index alone,
\* so two jobs of one source with different launch angles share it and TLC finds it
\* violated.)
C16_ConcurrentJobsWriteDisjoint ==
    (cores > 1) =>
        \A w \in Threads, v \in Threads :
            (w # v) => (JobWrites(w) \cap JobWrites(v) = {})

\* C17: within a run the job counter never decreases; under every interleaving the values
\* the workers have drawn from it are pairwise distinct and are exactly 0 .. counter-1,
\* and no two workers hold the same job index.
C17_CounterHandsOutDistinctJobs ==
    /\ [][sharedJobID' >= sharedJobID]_vars
    /\ [](/\ \A i \in 1 .. Len(drawn), j \in 1 .. Len(drawn) :
                (i # j) => (drawn[i] # drawn[j])
          /\ {drawn[i] : i \in 1 .. Len(drawn)} = 0 .. (sharedJobID - 1)
          /\ \A w \in Threads, v \in Threads :
                (w # v /\ wjob[w] # -1) => (wjob[w] # wjob[v]))

\* two workers have drawn all of 0 .. 5 between them: the four jobs of 2 x 2 and one
\* index past the end each
C17_Witness ==
    /\ cores = 2
    /\ NSz = 2
    /\ Nalpha = 2
    /\ iSingle_alpha = -1
    /\ sharedJobID = 6
    /\ Len(drawn) = 6
    /\ processed[0, 0] = 1
    /\ processed[1, 1] = 1
    /\ \A w \in Threads : wpc[w] = "done"

C19_PolicyFixedByWorkerCount ==
    /\ [](AllowMerging <=> (nthreads = 1))
    /\ [][AllowMerging' = AllowMerging /\ nthreads' = nthreads]_vars
    /\ [][(last' # last /\ last'.op \in {"merge", "replace", "append", "drop"}) =>
             (nthreads = 1 /\ AllowMerging)]_vars
    /\ [][(nthreads > 1 /\ ncalls' = ncalls + 1) =>
             /\ last'.op \in {"reserve", "discard"}
             /\ NArr'[last'.base] = NArr[last'.base] + 1
             /\ last'.Nt = NArr[last'.base]
             /\ Arr' = Arr]_vars

\* two workers configured: merging is off and both workers have a reserved slot to write
C19_Witness ==
    /\ nthreads = 2
    /\ ~AllowMerging
    /\ apc[1] = "write"
    /\ apc[2] = "write"
    /\ aArgs[1].base = aArgs[2].base
    /\ aNt[1] # aNt[2]

\* C20: MaxNArr is the integer quotient of the budget ArrMemSize by (number of cells x
\* size of one Arrival): the table of cells x MaxNArr records fits the budget and one more
\* record per cell would not (MaxNArr = 0 when the budget is below one record per cell);
\* before the first AddArr every count is 0 and every slot zeroed; MaxNArr and the budget
\* never change afterwards.
C20_CapacityFromBudget ==
    /\ [](/\ MaxNArr >= 0
          /\ Cardinality(Cells) * MaxNArr * SizeofArrival <= ArrMemSize
          /\ ArrMemSize < Cardinality(Cells) * (MaxNArr + 1) * SizeofArrival
          /\ \A c \in Cells : DOMAIN Arr[c] = 0 .. (MaxNArr - 1))
    /\ []((ncalls = 0) => \A c \in Cells :
             NArr[c] = 0 /\ \A i \in DOMAIN Arr[c] : Arr[c][i] = ZeroArrival)
    /\ [][MaxNArr' = MaxNArr /\ ArrMemSize' = ArrMemSize]_vars

\* a budget of 200 bytes for 2 cells of 40-byte records: 2 records per cell, 40 bytes
\* left over, and calls have been made
C20_Witness ==
    /\ ArrMemSize = 200
    /\ MaxNArr = 2
    /\ ncalls >= 1
    /\ \E c \in Cells : NArr[c] >= 1

\* one whole AddArr call as a function of the cell [n |-> count, arr |-> slots]
AddArrCell(cell, args) ==
    IF AllowMerging
    THEN IF ~IsSecondStepOfPair(args.omega, args.Phase, args.delay, cell.arr, cell.n)
         THEN IF cell.n >= MaxNArr
              THEN LET iArr == WeakestSlot(cell.arr, MaxNArr, args.Amp)
                   IN  IF iArr < 0 THEN cell
                       ELSE [cell EXCEPT !.arr[iArr] = NewArrival(args)]
              ELSE [n |-> cell.n + 1, arr |-> [cell.arr EXCEPT ![cell.n] = NewArrival(args)]]
         ELSE [cell EXCEPT !.arr[cell.n - 1] = MergedArrival(cell.arr[cell.n - 1], args)]
    ELSE IF ~SlotAvailable(cell.n, MaxNArr)
         THEN [cell EXCEPT !.n = cell.n + 1]
         ELSE [n |-> cell.n + 1, arr |-> [cell.arr EXCEPT ![cell.n] = NewArrival(args)]]

\* the cell after the AddArr calls of a sequence of candidates, from the zeroed cell
RECURSIVE AddArrAll(_, _)
AddArrAll(cell, cands) ==
    IF cands = << >> THEN cell ELSE AddArrAll(AddArrCell(cell, Head(cands)), Tail(cands))

EmptyCell == [n |-> 0, arr |-> [i \in 0 .. (MaxNArr - 1) |-> ZeroArrival]]

\* the contents of a cell: its count and the set of the arrivals stored in it
Contents(cell) ==
    [count |-> cell.n,
     stored |-> {cell.arr[i] : i \in {j \in DOMAIN cell.arr : j < cell.n}}]

Reordered(cands, p) == [i \in 1 .. Len(cands) |-> cands[p[i]]]

NoCallInFlight == \A w \in 1 .. MaxThreads : apc[w] = "idle"

\* C21: whenever no AddArr call is in flight, the contents of a cell (count and set of stored
\* arrivals) are what every other order of the same candidates would have left in it.
C21_InsertionOrderIndependent ==
    NoCallInFlight =>
        \A c \in Cells : \A p \in Permutations(1 .. Len(applied[c])) :
            Contents(AddArrAll(EmptyCell, Reordered(applied[c], p)))
                = Contents([n |-> NArr[c], arr |-> Arr[c]])

\* the function AddArrCell and the steps of AddArr agree: in call order the function gives
\* the table
AddArrCellAgrees ==
    NoCallInFlight =>
        \A c \in Cells : AddArrAll(EmptyCell, applied[c]) = [n |-> NArr[c], arr |-> Arr[c]]

(***************************************************************************)
(* Properties of the jobs of a run.                                        *)
(***************************************************************************)

\* RayInit has returned false (rayOk is "none" while it has not returned)
InitFailed == ToString(rayOk) = "FALSE"

\* C22: a job whose RayInit returned false makes no Step_Influence call (no write to the
\* pressure array or the arrival table), neither aborts nor crashes nor leaves a message
\* in the error buffer, and returns to the worker's loop, which draws the next job index.
C22_FailedInitContributesNothing ==
    /\ [](InitFailed =>
             /\ ninfl = 0
             /\ rpc \in {"done", "off"}
             /\ exceptionStr = << >>)
    /\ [][(InitFailed /\ rpc = "done" /\ rpc' # rpc) =>
             \A w \in Threads : wpc[w] = "run" => wpc'[w] = "fetch"]_vars
    /\ [][(InitFailed /\ rpc = "off") =>
             \A w \in Threads : (wpc[w] = "fetch" /\ wpc'[w] # "fetch") =>
                 /\ sharedJobID' = sharedJobID + 1
                 /\ drawn' = Append(drawn, sharedJobID)]_vars

\* TL mode: the job of source 0 (on the sea surface side of the top boundary) failed its
\* RayInit, and the worker has drawn a later job and is about to run it
C22_Witness ==
    /\ runType = "TL"
    /\ InitFailed
    /\ rinit.isz = 0
    /\ rpc = "off"
    /\ wpc[1] = "run"
    /\ wjob[1] >= 1

\* the ray of the RayTerminate call travels backward: its horizontal slowness is negative
TravelsBackward == point.t[1] < 0

\* C23 (as stated): in every RayTerminate call the backward stop fires exactly when the run
\* is 2D or 2D-in-3D and the ray travels backward, and then the ray is stopped; in a full
\* 3D run it never fires.
C23_BackwardStopsIn2DAndNx2D ==
    [][(rpc = "terminate") =>
          /\ term'.backward <=> (~R3D /\ TravelsBackward)
          /\ term'.backward => (rpc' = "done" /\ Nsteps' >= 0)]_vars

\* C23 (amended): in every RayTerminate call the backward stop fires exactly when the run
\* is 2D-in-3D and the ray travels backward, and then the ray is stopped; in a 2D run and
\* in a full 3D run it never fires.
C23_BackwardStopsOnlyInNx2D ==
    [][(rpc = "terminate") =>
          /\ term'.backward <=> (O3D /\ ~R3D /\ TravelsBackward)
          /\ term'.backward => (rpc' = "done" /\ Nsteps' >= 0)]_vars

\* a 2D-in-3D ray stopped for travelling backward and for no other reason
C23_Witness ==
    /\ O3D /\ ~R3D
    /\ rpc = "done"
    /\ term.backward
    /\ ~term.leftbox /\ ~term.lostenergy /\ ~term.escapedboundaries

\* the (source, angle) pair a job index stands for
JobPair(j) ==
    IF iSingle_alpha >= 0 THEN <<j, iSingle_alpha>> ELSE <<j \div Nalpha, j % Nalpha>>

DecodedPair(j) ==
    LET r == GetJobIndices(j, NSz, Nalpha, iSingle_alpha) IN <<r.isrc, r.ialpha>>

\* C24: GetJobIndices decodes job j as (j div Nalpha, j mod Nalpha), or (j, iSingle_alpha)
\* for a single launch angle, and continues exactly when isrc < NSz; the decoding is one to
\* one from 0 .. NumJobs-1 onto the (source, angle) pairs of the run; a worker that draws
\* an index whose source is not a source of the run stops; and every job a worker runs
\* has its source and angle index inside their tables.
C24_JobDecoding ==
    /\ [](/\ \A j \in 0 .. (NumJobs + Nalpha) :
                /\ DecodedPair(j) = JobPair(j)
                /\ GetJobIndices(j, NSz, Nalpha, iSingle_alpha).continue <=> (JobPair(j)[1] < NSz)
                /\ (JobPair(j)[1] < NSz) <=> (j < NumJobs)
          /\ \A j1, j2 \in 0 .. (NumJobs - 1) : DecodedPair(j1) = DecodedPair(j2) => j1 = j2
          /\ \A j \in 0 .. (NumJobs - 1) : WantedPair(DecodedPair(j)[1], DecodedPair(j)[2])
          /\ \A s \in 0 .. MaxSources, a \in 0 .. MaxAngles :
                WantedPair(s, a) => \E j \in 0 .. (NumJobs - 1) : DecodedPair(j) = <<s, a>>)
    /\ [](\A w \in Threads : wpc[w] = "run" =>
             /\ 0 <= wrinit[w].isrc /\ wrinit[w].isrc < NSz
             /\ 0 <= wrinit[w].ialpha /\ wrinit[w].ialpha < Nalpha
             /\ <<wrinit[w].isrc, wrinit[w].ialpha>> = JobPair(wjob[w]))
    /\ [][\A w \in Threads : (wpc[w] = "fetch" /\ wpc'[w] # "fetch") =>
             IF JobPair(sharedJobID)[1] < NSz
             THEN wpc'[w] = "run" /\ wjob'[w] = sharedJobID
             ELSE wpc'[w] = "done" /\ sharedJobID >= NumJobs]_vars

\* 2 sources, 2 angles, the single launch angle 1: one worker ran the jobs 0 = (0, 1) and
\* 1 = (1, 1), drew the index 2 and stopped
C24_Witness ==
    /\ NSz = 2 /\ Nalpha = 2 /\ iSingle_alpha = 1 /\ cores = 1
    /\ drawn = <<0, 1, 2>>
    /\ processed[0, 1] = 1 /\ processed[1, 1] = 1
    /\ wpc[1] = "done"

\* RayInit has returned true
InitSucceeded == ToString(rayOk) = "TRUE"

\* C25: every RayUpdate advances the step index by 1 or 2; a RayTerminate call with
\* is >= MaxN-3 returns true; the trace loop of a job whose RayInit succeeded ends only by
\* RayTerminate returning true, with Nsteps assigned, never by its iteration bound; a ray
\* stopped by the step budget neither aborts the process nor ends the worker, which goes
\* round its loop; and every job, and with it the run, comes to its end.
C25_TraceEndsBySoftStop ==
    /\ [][(rpc = "update" /\ rpc' # rpc) => (rpc' = "terminate" /\ is' - is \in {1, 2})]_vars
    /\ [][(rpc = "terminate" /\ rpc' # rpc /\ is >= MaxN - 3) =>
             (rpc' = "done" /\ Nsteps' >= 0)]_vars
    /\ [][(rpc = "terminate" /\ rpc' = "done") => (term'.stop /\ Nsteps' >= 0)]_vars
    /\ []((rpc = "terminate") => (istep < MaxN - 3 /\ is <= MaxN - 2))
    /\ []((InitSucceeded /\ rpc \in {"done", "off"}) => Nsteps >= 0)
    /\ [](rpc \notin {"aborted", "crashed"})
    /\ [][(term.budget /\ rpc = "done" /\ rpc' # rpc) =>
             /\ rpc' = "off"
             /\ exceptionStr' = << >>
             /\ \A w \in Threads : wpc[w] = "run" => wpc'[w] = "fetch"]_vars
    /\ <>(mainpc = "returned")

\* a ray that took MaxN-3 steps without meeting a stop condition was stopped by the step
\* budget, and the worker has drawn another job
C25_Witness ==
    /\ term.budget
    /\ Nsteps = MaxN - 3
    /\ rpc = "off"
    /\ wpc[1] = "run"
    /\ wjob[1] > 0

\* the signed distances of the ray point RayTerminate is called on (2D)
CurrentDist == DistancesAt(point.x)

\* C26: in a 2D run, every RayTerminate call finds the ray escaped exactly when it is
\* outside the top at the previous and the current step, or outside the bottom at both,
\* the previous distances being DistBegTop / DistBegBot: the distances at the source after
\* RayInit, replaced by the current ones in every RayTerminate call that does not stop
\* the ray and changed by nothing else.  A ray outside at the current step only is not
\* stopped for this reason.
C26_EscapedAtBothSteps ==
    /\ [][(~O3D /\ rpc = "terminate" /\ rpc' # rpc) =>
             /\ term'.escapedboundaries <=>
                    \/ (Dist.BegTop < 0 /\ CurrentDist.Top < 0)
                    \/ (Dist.BegBot < 0 /\ CurrentDist.Bot < 0)
             /\ term'.escapedboundaries => (rpc' = "done" /\ Nsteps' = is + 1)
             /\ (rpc' = "update") =>
                    (Dist'.BegTop = CurrentDist.Top /\ Dist'.BegBot = CurrentDist.Bot)
             /\ (rpc' # "update") =>
                    (Dist'.BegTop = Dist.BegTop /\ Dist'.BegBot = Dist.BegBot)]_vars
    /\ [][(~O3D /\ rpc = "update") =>
             (Dist'.BegTop = Dist.BegTop /\ Dist'.BegBot = Dist.BegBot)]_vars
    /\ [][(~O3D /\ rpc = "init" /\ rpc' = "update") =>
             (Dist'.BegTop = DistancesAt(point'.x).Top /\ Dist'.BegBot = DistancesAt(point'.x).Bot)]_vars

\* a 2D ray above the sea surface at two successive steps, inside the box and with its
\* energy, stopped for having escaped
C26_Witness ==
    /\ ~O3D
    /\ rpc = "done"
    /\ term.escapedboundaries
    /\ ~term.leftbox /\ ~term.lostenergy
    /\ Dist.BegTop < 0 /\ Dist.EndTop < 0

\* the candidate pairs with a stored arrival of cell c below the most recent one, and not
\* with the most recent one
PairsWithEarlierOnly(c, B) ==
    /\ NotPairing(c, B)
    /\ \E j \in 0 .. (NArr[c] - 2) : WithinTolerances(B.omega, B, Arr[c][j])

\* C27: in merge-enabled mode an AddArr call merges exactly when the candidate is within
\* both tolerances of slot count-1, and then into that slot; a candidate within both
\* tolerances of an earlier slot only is not merged into it: below capacity it is appended
\* as a new arrival, at capacity it replaces the weakest arrival or is dropped.
C27_PairingOnlyAgainstLastSlot ==
    [][ (AllowMerging /\ ncalls' = ncalls + 1)
        => LET c == last'.base
               B == last'.args
               Nt == NArr[c]
           IN  /\ (last'.op = "merge") <=> ~NotPairing(c, B)
               /\ (last'.op = "merge") => (last'.iArr = Nt - 1 /\ OtherSlotsUnchanged(c, Nt - 1))
               /\ PairsWithEarlierOnly(c, B) =>
                     /\ \A j \in DOMAIN Arr[c] : Arr'[c][j] \in {Arr[c][j], NewArrival(B)}
                     /\ IF Nt < MaxNArr
                        THEN /\ last'.op = "append"
                             /\ NArr'[c] = Nt + 1
                             /\ Arr'[c][Nt] = NewArrival(B)
                             /\ OtherSlotsUnchanged(c, Nt)
                        ELSE /\ last'.op \in {"replace", "drop"}
                             /\ NArr' = NArr ]_vars

\* a candidate within both tolerances of the arrival in slot 0 and not of the one in slot 1
\* has been appended in slot 2
C27_Witness ==
    /\ AllowMerging
    /\ last.op = "append"
    /\ last.iArr = 2
    /\ WithinTolerances(last.args.omega, last.args, Arr[last.base][0])
    /\ ~WithinTolerances(last.args.omega, last.args, Arr[last.base][1])

(***************************************************************************)
(* Properties of the unformatted output file.                              *)
(***************************************************************************)

\* the calls made on the file after open(), when open() was the first call
AfterOpen == IF fcalls # << >> /\ fcalls[1].op = "open" THEN Tail(fcalls) ELSE << >>

\* the payload length of each record of a call sequence that begins with rec(): the words
\* asked to be written between a rec() and the next rec() or the end
RECURSIVE RecordLengths(_)
RecordLengths(cs) ==
    IF cs = << >> THEN << >>
    ELSE LET c == cs[Len(cs)]
             r == RecordLengths(SubSeq(cs, 1, Len(cs) - 1))
         IN  IF c.op = "rec" THEN Append(r, 0) ELSE [r EXCEPT ![Len(r)] = @ + c.bytes]

\* the length fields of the concatenation of records of these payload lengths, from offset at
RECURSIVE Framing(_, _)
Framing(ls, at) ==
    IF ls = << >> THEN {}
    ELSE {[at |-> at, val |-> Head(ls)], [at |-> at + 1 + Head(ls), val |-> Head(ls)]}
         \cup Framing(Tail(ls), at + Head(ls) + 2)

RECURSIVE FramedSize(_)
FramedSize(ls) == IF ls = << >> THEN 0 ELSE Head(ls) + 2 + FramedSize(Tail(ls))

\* the file is the concatenation of the records of these payload lengths
IsFramed(ls) == ostr.lens = Framing(ls, 0) /\ ostr.size = FramedSize(ls)

\* the file was opened, the calls that followed began with rec(), and the file was destroyed
RecordsWritten ==
    /\ fpc = "destroyed"
    /\ AfterOpen # << >>
    /\ AfterOpen[1].op = "rec"

\* a write() was called before the first rec()
WriteBeforeRec(i) ==
    /\ fcalls[i].op = "write"
    /\ \A j \in 1 .. (i - 1) : fcalls[j].op # "rec"

\* every record's payload has a length that a 4-byte signed length can hold
LengthsFit == \A k \in DOMAIN RecordLengths(AfterOpen) : RecordLengths(AfterOpen)[k] < 2^29

\* C28: when the calls on an open file begin with rec() and end with its destruction, and
\* every record's payload length fits the 4-byte length, no call has raised an error and the
\* file is the concatenation of one record per rec(): the length, the payload, the length
\* again, the length being the payload written between that rec() and the next rec() or the
\* destruction; and a write() before the first rec() raises an error.
C28_RecordFraming ==
    /\ (RecordsWritten /\ LengthsFit) =>
          /\ \A i \in 1 .. Len(fcalls) : ~fcalls[i].threw
          /\ IsFramed(RecordLengths(AfterOpen))
    /\ \A i \in 1 .. Len(fcalls) : WriteBeforeRec(i) => fcalls[i].threw

\* what does hold: the framing of every file that stays below 2 GiB
FramingBelow2GiB ==
    (RecordsWritten /\ FramedSize(RecordLengths(AfterOpen)) < 2^29) => C28_RecordFraming

\* C29: in ray mode, whenever RayUpdate is about to be called the step index is leaves room
\* for the three-point window ray2D[is], ray2D[is+1], ray2D[is+2] in a buffer of MaxN points
\* (is + 2 <= MaxN - 1); the point RayTerminate reads, ray2D[is], is inside the buffer; and
\* the recorded Nsteps never exceeds MaxN - 1.
C29_RayBufferBounds ==
    runType = "ray" =>
        /\ rpc = "update" => (is >= 0 /\ is + 2 <= MaxN - 1)
        /\ rpc = "terminate" => (is >= 0 /\ is <= MaxN - 1)
        /\ Nsteps <= MaxN - 1

\* a ray in ray mode whose RayUpdate was called at the last step index the budget allows and
\* reflected, so that RayTerminate reads the point two further on
C29_Witness ==
    /\ runType = "ray"
    /\ rpc = "terminate"
    /\ upd.numRaySteps = 2
    /\ is = MaxN - 2

\* C30: in merge-enabled mode every slot index an AddArr call reads or writes lies in
\* 0 .. MaxNArr-1 and is at most the count its cell had at the call; on a cell with count 0
\* the pairing test reads no slot (the only slot touched is the one the candidate is written
\* to), and with MaxNArr = 0 the candidate is dropped and no slot is touched.
C30_MergeIndexSafety ==
    (AllowMerging /\ last.op # "none") =>
        /\ touched \subseteq 0 .. (MaxNArr - 1)
        /\ \A i \in touched : i <= last.Nt
        /\ last.Nt = 0 => touched = (IF MaxNArr = 0 THEN {} ELSE {0})
        /\ MaxNArr = 0 => (last.op = "drop" /\ touched = {})

\* merge-enabled calls have scanned a full cell of several slots, and have been made on an
\* empty cell
C30_Witness ==
    /\ AllowMerging
    /\ last.op = "replace"
    /\ MaxNArr >= 2
    /\ touched = 0 .. (MaxNArr - 1)
    /\ \E c \in Cells : NArr[c] = 0

\* C31: a merge (merge-enabled AddArr call whose candidate pairs) changes no field of the
\* slot at index count-1 other than its delay, amplitude and four angles: that slot's phase
\* and top and bottom bounce counts, the cell's count, every other slot of the cell and
\* every other cell are as they were before the call.
C31_MergeFrame ==
    [][ (AllowMerging /\ ncalls' = ncalls + 1 /\ last'.op = "merge")
        => LET c == last'.base
               i == NArr[c] - 1
           IN  /\ last'.iArr = i
               /\ Arr'[c][i].Phase = Arr[c][i].Phase
               /\ Arr'[c][i].NTopBnc = Arr[c][i].NTopBnc
               /\ Arr'[c][i].NBotBnc = Arr[c][i].NBotBnc
               /\ NArr' = NArr
               /\ OtherSlotsUnchanged(c, i)
               /\ \A d \in Cells \ {c} : Arr'[d] = Arr[d] ]_vars

\* a candidate of another phase and other bounce counts has been merged into the last of
\* several stored arrivals, while another cell holds arrivals too
C31_Witness ==
    /\ AllowMerging
    /\ last.op = "merge"
    /\ NArr[last.base] >= 2
    /\ last.iArr = NArr[last.base] - 1
    /\ Arr[last.base][last.iArr].Phase # last.args.Phase
    /\ Arr[last.base][last.iArr].NTopBnc # last.args.NumTopBnc
    /\ Arr[last.base][last.iArr].a > 0
    /\ \E d \in Cells \ {last.base} : NArr[d] >= 1

\* a cell whose count has reached the capacity of a table that has slots
FullCell(c) == MaxNArr >= 1 /\ NArr[c] = MaxNArr

\* a is no greater than any amplitude stored in the slots of cell c in table T
BelowAllStored(a, T, c) == \A j \in 0 .. (MaxNArr - 1) : a <= T[c][j].a

\* the smallest amplitude stored in a full cell c of table T
SmallestStored(T, c) ==
    CHOOSE a \in {T[c][j].a : j \in 0 .. (MaxNArr - 1)} : BelowAllStored(a, T, c)

\* C32: in merge-enabled mode, with non-negative amplitudes, an AddArr call (merge,
\* replacement of the weakest, or drop) on a table leaves every cell whose count has reached
\* MaxNArr with count MaxNArr, and the smallest amplitude stored in it does not decrease.
C32_StrongestMonotone ==
    [][ AllowMerging
        => \A c \in Cells :
              FullCell(c) =>
                 /\ NArr'[c] = MaxNArr
                 /\ SmallestStored(Arr', c) >= SmallestStored(Arr, c) ]_vars

\* the weakest arrival of a full cell of two slots has been replaced by a stronger one, and
\* the smallest amplitude left in the cell is positive
C32_Witness ==
    /\ AllowMerging
    /\ MaxNArr = 2
    /\ last.op = "replace"
    /\ last.Nt = MaxNArr
    /\ NArr[last.base] = MaxNArr
    /\ SmallestStored(Arr, last.base) >= 1

====
